---- MODULE Spec2Model ----
(***************************************************************************)
(* Clue sheet: the mark model, the sparse grid store, the constraint       *)
(* resolver, the cascade rules of the sheet and the setup wizard.          *)
(*                                                                         *)
(* React semantics used throughout: a handler reads the state of the       *)
(* render it was created in (the unprimed variables) and queues updater    *)
(* functions; the queued updaters are applied in order to the previous     *)
(* state and committed together when the handler has returned (the primed  *)
(* variables).                                                             *)
(***************************************************************************)
EXTENDS Integers, Sequences, FiniteSets, TLC

VARIABLES
  config,             \* App: useState<AppConfig>
  setupState,         \* App: useState<GameSetupState>
  settingsOpen,       \* App: useState(false)
  cellMarks,          \* useCellMarks: useState<Map<CellKey, CellMark>>
  shownToState,       \* useCardOwnership: useState<ShownToState>
  selectedCell,       \* Sheet: useState<SelectedCell>
  selectedOwnedCard,  \* Sheet: useState<CardId | null>
  showConfirmDialog,  \* Sheet: useState(false)
  lastEvent,          \* history: the handler that produced this state
  writesDone,         \* history: marker-bar writes and game resets so far (bounded)
  probe,              \* inputs and result of a pure function under test
  pendingUpdates,     \* React: the state updaters queued by the running handler
  showValidationDialog, \* Sheet: useState(false)
  draft,              \* SettingsModal: useState<AppConfig>(() => activeConfig)
  playerNames         \* SettingsModal: useState<Record<PlayerId, string>>

vars == <<config, setupState, settingsOpen, cellMarks, shownToState,
          selectedCell, selectedOwnedCard, showConfirmDialog, lastEvent,
          writesDone, probe, pendingUpdates, showValidationDialog,
          draft, playerNames>>

----------------------------------------------------------------------------
(* Bounds of the model *)

NumCards == 3          \* cards of the catalog that the model keeps
MaxNumberKey == 2      \* number marker keys 1..MaxNumberKey
MaxBarKey == 1         \* bar colour keys 1..MaxBarKey
MaxHandSize == 1       \* config.handSize ranges over 0..MaxHandSize
MaxPublicCount == 1    \* config.publicCount ranges over 0..MaxPublicCount
MaxWrites == 2         \* marker-bar writes and game resets in one run
MaxDeps == 2           \* length of a constraint's dependent-rule list

(* Program constants *)

PLAYER_COL_COUNT == 6
FirstCard == 9         \* the catalog window starts here: ids 9, 10, 11, ...

Cards == FirstCard..(FirstCard + NumCards - 1)
Players == 1..PLAYER_COL_COUNT
NUMBER_MARKER_KEYS == 1..MaxNumberKey
BAR_COLOR_KEYS == 1..MaxBarKey
PrimaryMarks == {"empty", "has", "not", "bars"}

NoCell == << >>
NoCard == 0

----------------------------------------------------------------------------
(* Sequence helpers *)

RECURSIVE SortedSeq(_)
SortedSeq(S) ==
  IF S = {} THEN << >>
  ELSE LET m == CHOOSE x \in S : \A y \in S : x <= y
       IN <<m>> \o SortedSeq(S \ {m})

Range(s) == {s[i] : i \in 1..Len(s)}

RECURSIVE Orderings(_)
Orderings(S) ==
  IF S = {} THEN {<< >>}
  ELSE UNION {{<<x>> \o t : t \in Orderings(S \ {x})} : x \in S}

----------------------------------------------------------------------------
(* Mark model: domain/cell-marks.ts *)

EMPTY_MARK == [primary |-> "empty", numbers |-> {}, barColors |-> {}]

isEmptyMark(mark) == mark.primary = "empty" /\ Cardinality(mark.numbers) = 0

\* createMark without the normalisation of the bar colours
createMarkKeepingBarColors(primary, numbers, barColors) ==
  IF primary = "empty" /\ Cardinality(numbers) = 0
  THEN EMPTY_MARK
  ELSE [primary |-> primary, numbers |-> numbers, barColors |-> barColors]

createMark(primary, numbers, barColors) ==
  IF primary = "empty" /\ Cardinality(numbers) = 0
  THEN EMPTY_MARK
  ELSE [primary |-> primary,
        numbers |-> numbers,
        barColors |-> IF primary = "bars" THEN barColors ELSE {}]

withPrimary(mark, primary) == createMark(primary, mark.numbers, mark.barColors)

\* withToggledNumber that never takes a number out
withToggledNumberAddOnly(mark, num) ==
  createMark(mark.primary, mark.numbers \cup {num}, mark.barColors)

withToggledNumber(mark, num) ==
  LET newNumbers == IF num \in mark.numbers
                    THEN mark.numbers \ {num}
                    ELSE mark.numbers \cup {num}
  IN createMark(mark.primary, newNumbers, mark.barColors)

\* withToggledBarColor keeping the primary of the mark
withToggledBarColorKeepingPrimary(mark, color) ==
  LET newColors == IF color \in mark.barColors
                   THEN mark.barColors \ {color}
                   ELSE mark.barColors \cup {color}
  IN createMark(mark.primary, mark.numbers, newColors)

withToggledBarColor(mark, color) ==
  LET newColors == IF color \in mark.barColors
                   THEN mark.barColors \ {color}
                   ELSE mark.barColors \cup {color}
  IN IF Cardinality(newColors) = 0
     THEN createMark("empty", mark.numbers, {})
     ELSE createMark("bars", mark.numbers, newColors)

withoutNumber(mark, num) ==
  IF num \notin mark.numbers THEN mark
  ELSE createMark(mark.primary, mark.numbers \ {num}, mark.barColors)

withoutAllNumbers(mark) ==
  IF Cardinality(mark.numbers) = 0 THEN mark
  ELSE createMark(mark.primary, {}, mark.barColors)

----------------------------------------------------------------------------
(* Cell keys: the template string `${cardId}-${playerId}` and its parse.   *)
(* A key is the sequence of its characters.                                *)

DigitChars == <<"0", "1", "2", "3", "4", "5", "6", "7", "8", "9">>

RECURSIVE NumberToString(_)
NumberToString(n) ==
  IF n < 10 THEN <<DigitChars[n + 1]>>
  ELSE NumberToString(n \div 10) \o <<DigitChars[(n % 10) + 1]>>

DigitValue(ch) == CHOOSE d \in 0..9 : DigitChars[d + 1] = ch

RECURSIVE StringToNumber(_)
StringToNumber(s) ==
  IF s = << >> THEN 0
  ELSE 10 * StringToNumber(SubSeq(s, 1, Len(s) - 1)) + DigitValue(s[Len(s)])

\* String.prototype.split("-"): the list of the pieces between the dashes
RECURSIVE SplitDash(_)
SplitDash(s) ==
  IF \A i \in 1..Len(s) : s[i] # "-" THEN <<s>>
  ELSE LET d == CHOOSE i \in 1..Len(s) : s[i] = "-" /\ \A j \in 1..(i - 1) : s[j] # "-"
       IN <<SubSeq(s, 1, d - 1)>> \o SplitDash(SubSeq(s, d + 1, Len(s)))

makeKey(cardId, playerId) ==
  NumberToString(cardId) \o <<"-">> \o NumberToString(playerId)

parseKey(key) ==
  LET parts == SplitDash(key)
  IN [cardId |-> StringToNumber(parts[1]), playerId |-> StringToNumber(parts[2])]

----------------------------------------------------------------------------
(* Grid store: ui/hooks/useCellMarks.ts.  The Map is a function whose      *)
(* domain is the set of keys present.                                      *)

EmptyMap == [k \in {} |-> EMPTY_MARK]

MapSet(m, key, mark) == [k \in (DOMAIN m) \cup {key} |-> IF k = key THEN mark ELSE m[k]]

MapDelete(m, key) == [k \in (DOMAIN m) \ {key} |-> m[k]]

getCellMark(marks, cardId, playerId) ==
  IF makeKey(cardId, playerId) \in DOMAIN marks
  THEN marks[makeKey(cardId, playerId)]
  ELSE EMPTY_MARK

\* setCellMark without the delete branch
setCellMarkAlwaysStoring(prev, cardId, playerId, mark) ==
  MapSet(prev, makeKey(cardId, playerId), mark)

\* the updater queued by setCellMark
setCellMark(prev, cardId, playerId, mark) ==
  IF isEmptyMark(mark)
  THEN MapDelete(prev, makeKey(cardId, playerId))
  ELSE MapSet(prev, makeKey(cardId, playerId), mark)

\* batchSetMarks leaving its loop after the first update
batchSetMarksFirstOnly(prev, updates) ==
  IF updates = << >> THEN prev
  ELSE IF isEmptyMark(Head(updates).mark)
  THEN MapDelete(prev, makeKey(Head(updates).cardId, Head(updates).playerId))
  ELSE MapSet(prev, makeKey(Head(updates).cardId, Head(updates).playerId), Head(updates).mark)

\* the updater queued by batchSetMarks; updates is a sequence of
\* [cardId, playerId, mark], applied in order
RECURSIVE batchSetMarks(_, _)
batchSetMarks(prev, updates) ==
  IF updates = << >> THEN prev
  ELSE LET u == Head(updates)
           next == IF isEmptyMark(u.mark)
                   THEN MapDelete(prev, makeKey(u.cardId, u.playerId))
                   ELSE MapSet(prev, makeKey(u.cardId, u.playerId), u.mark)
       IN batchSetMarks(next, Tail(updates))

\* the updater queued by removeNumberFromColumn
removeNumberFromColumn(prev, playerId, num) ==
  LET hit(k) == parseKey(k).playerId = playerId /\ num \in prev[k].numbers
      gone == {k \in DOMAIN prev : hit(k) /\ isEmptyMark(withoutNumber(prev[k], num))}
  IN [k \in (DOMAIN prev) \ gone |->
        IF hit(k) THEN withoutNumber(prev[k], num) ELSE prev[k]]

\* the card ids of a column that carry a number (only membership and count
\* of the returned list are used by the callers)
findNumberInColumn(marks, playerId, num) ==
  {parseKey(k).cardId : k \in {x \in DOMAIN marks :
      parseKey(x).playerId = playerId /\ num \in marks[x].numbers}}

rowHasPrimary(marks, cardId, primary) ==
  \E k \in DOMAIN marks : parseKey(k).cardId = cardId /\ marks[k].primary = primary

columnHasPrimary(marks, playerId, primary) ==
  \E k \in DOMAIN marks : parseKey(k).playerId = playerId /\ marks[k].primary = primary

countPrimaryInRow(marks, cardId, primary) ==
  Cardinality({k \in DOMAIN marks : parseKey(k).cardId = cardId /\ marks[k].primary = primary})

\* the state queued by resetAll
resetAll == EmptyMap

\* a sequence of batches queued by one handler, applied in order
RECURSIVE applyQueue(_, _)
applyQueue(prev, queue) ==
  IF queue = << >> THEN prev
  ELSE applyQueue(batchSetMarks(prev, Head(queue)), Tail(queue))

----------------------------------------------------------------------------
(* Constraint resolver: domain/config.ts *)

AutoRuleIds == {"rowElimination", "lastMaybeDeduction"}
ConstraintIds == {"numbersOnlyOnEmptyOrBars", "numberToggleRemovesFromColumn"}

AutoRulesConfigs == [AutoRuleIds -> BOOLEAN]

\* a dependency table in which a rule depends on each constraint
CONSTRAINT_DEPENDENCIES_wired ==
  [numbersOnlyOnEmptyOrBars |-> <<"lastMaybeDeduction">>,
   numberToggleRemovesFromColumn |-> <<"rowElimination">>]

CONSTRAINT_DEPENDENCIES ==
  [numbersOnlyOnEmptyOrBars |-> << >>, numberToggleRemovesFromColumn |-> << >>]

\* Array.prototype.some over the rule list
RECURSIVE someEnabled(_, _)
someEnabled(ruleIds, autoRules) ==
  IF ruleIds = << >> THEN FALSE
  ELSE IF autoRules[Head(ruleIds)] THEN TRUE
  ELSE someEnabled(Tail(ruleIds), autoRules)

\* isConstraintRequired with every in place of some
isConstraintRequiredInEvery(dependencies, constraintId, autoRules) ==
  \A i \in 1..Len(dependencies[constraintId]) : autoRules[dependencies[constraintId][i]]

\* the body of isConstraintRequired over a given dependency table
isConstraintRequiredIn(dependencies, constraintId, autoRules) ==
  LET dependentRules == dependencies[constraintId]
  IN IF Len(dependentRules) = 0 THEN FALSE
     ELSE someEnabled(dependentRules, autoRules)

isConstraintRequired(constraintId, autoRules) ==
  isConstraintRequiredIn(CONSTRAINT_DEPENDENCIES, constraintId, autoRules)

----------------------------------------------------------------------------
(* Setup wizard: infra/gameSetup.ts and App.tsx *)

getInitialPhase(publicCount) == IF publicCount > 0 THEN "selectPublic" ELSE "selectOwner"

createInitialSetup(publicCount) ==
  [phase |-> getInitialPhase(publicCount),
   publicCards |-> << >>,
   ownerCards |-> << >>,
   currentSelection |-> << >>]

needsSetup(publicCount, handSize) == publicCount > 0 \/ handSize > 0

\* requiredCount of getPhaseInfo; -1 stands for the null of phase "playing"
requiredCount(phase, publicCount, handSize) ==
  CASE phase = "selectPublic" -> publicCount
    [] phase = "selectOwner" -> handSize
    [] OTHER -> -1

validateSelection(selectionCount, required) ==
  IF selectionCount < required THEN FALSE
  ELSE IF selectionCount > required THEN FALSE
  ELSE TRUE

effectivePhase ==
  IF ~needsSetup(config.publicCount, config.handSize) THEN "playing"
  ELSE setupState.phase

isInSetup == effectivePhase # "playing"
isGridDisabled == isInSetup

isPublicCard(cardId) == cardId \in Range(setupState.publicCards)
isOwnerCard(cardId) == cardId \in Range(setupState.ownerCards)
isRowLocked(cardId) == isPublicCard(cardId) \/ isOwnerCard(cardId)

\* the state queued by toggleCardSelection
toggleCardSelection(prev, cardId) ==
  LET current == IF cardId \in Range(prev.currentSelection)
                 THEN Range(prev.currentSelection) \ {cardId}
                 ELSE Range(prev.currentSelection) \cup {cardId}
  IN [prev EXCEPT !.currentSelection = SortedSeq(current)]

\* the state queued by confirmPhase
confirmPhaseState(prev, phase, selectedCards, handSize) ==
  CASE phase = "selectPublic" ->
         [prev EXCEPT !.phase = IF handSize > 0 THEN "selectOwner" ELSE "playing",
                      !.publicCards = selectedCards,
                      !.currentSelection = << >>]
    [] phase = "selectOwner" ->
         [prev EXCEPT !.phase = "playing",
                      !.ownerCards = selectedCards,
                      !.currentSelection = << >>]
    [] OTHER -> prev

\* the cardType of the result of confirmPhase; "none" stands for null
confirmPhaseCardType(phase) ==
  CASE phase = "selectPublic" -> "public"
    [] phase = "selectOwner" -> "owner"
    [] OTHER -> "none"

----------------------------------------------------------------------------
(* Shown-to tracker: domain/card-ownership.ts *)

OTHER_PLAYER_IDS == 2..PLAYER_COL_COUNT

EmptyShownTo == [c \in {} |-> {}]

getShownToPlayers(state, cardId) == IF cardId \in DOMAIN state THEN state[cardId] ELSE {}

\* toggleShownTo always storing the new set
toggleShownToKeepingEmpty(state, cardId, playerId) ==
  LET current == IF cardId \in DOMAIN state THEN state[cardId] ELSE {}
      next == IF playerId \in current THEN current \ {playerId} ELSE current \cup {playerId}
  IN [c \in (DOMAIN state) \cup {cardId} |-> IF c = cardId THEN next ELSE state[c]]

toggleShownTo(state, cardId, playerId) ==
  LET current == IF cardId \in DOMAIN state THEN state[cardId] ELSE {}
      next == IF playerId \in current THEN current \ {playerId} ELSE current \cup {playerId}
  IN IF Cardinality(next) = 0
     THEN [c \in (DOMAIN state) \ {cardId} |-> state[c]]
     ELSE [c \in (DOMAIN state) \cup {cardId} |-> IF c = cardId THEN next ELSE state[c]]

clearShownTo(state, cardId) ==
  IF cardId \notin DOMAIN state THEN state
  ELSE [c \in (DOMAIN state) \ {cardId} |-> state[c]]

----------------------------------------------------------------------------
(* Cascade rules of the sheet: ui/Sheet.tsx.  Every rule reads the marks   *)
(* of the current render and returns what it queues.                       *)

Update(cardId, playerId, mark) == [cardId |-> cardId, playerId |-> playerId, mark |-> mark]

\* the order in which getCards lists the catalog
allCards == SortedSeq(Cards)

\* the first loop of applyMarksForCards starting at column 2
RECURSIVE rowMarksForCardsFromColumn2(_, _)
rowMarksForCardsFromColumn2(cards, type) ==
  IF cards = << >> THEN << >>
  ELSE [i \in 1..(PLAYER_COL_COUNT - 1) |->
          Update(Head(cards), i + 1, createMark("not", {}, {}))]
       \o rowMarksForCardsFromColumn2(Tail(cards), type)

\* updates.push of the first loop of applyMarksForCards, card after card
RECURSIVE rowMarksForCards(_, _)
rowMarksForCards(cards, type) ==
  IF cards = << >> THEN << >>
  ELSE [playerId \in 1..PLAYER_COL_COUNT |->
          Update(Head(cards), playerId,
                 IF type = "public" THEN createMark("not", {}, {})
                 ELSE createMark(IF playerId = 1 THEN "has" ELSE "not", {}, {}))]
       \o rowMarksForCards(Tail(cards), type)

\* the second loop of applyMarksForCards without the test on cardSet
RECURSIVE restOfOwnerColumnOverOwned(_, _, _)
restOfOwnerColumnOverOwned(catalog, cardSet, publicSet) ==
  IF catalog = << >> THEN << >>
  ELSE (IF Head(catalog) \notin publicSet
        THEN <<Update(Head(catalog), 1, createMark("not", {}, {}))>>
        ELSE << >>)
       \o restOfOwnerColumnOverOwned(Tail(catalog), cardSet, publicSet)

\* updates.push of the second loop of applyMarksForCards
RECURSIVE restOfOwnerColumn(_, _, _)
restOfOwnerColumn(catalog, cardSet, publicSet) ==
  IF catalog = << >> THEN << >>
  ELSE (IF Head(catalog) \notin cardSet /\ Head(catalog) \notin publicSet
        THEN <<Update(Head(catalog), 1, createMark("not", {}, {}))>>
        ELSE << >>)
       \o restOfOwnerColumn(Tail(catalog), cardSet, publicSet)

\* the batches queued by applyMarksForCards
applyMarksForCards(cards, type, publicCards) ==
  LET updates == rowMarksForCards(cards, type)
                 \o (IF type = "owner"
                     THEN restOfOwnerColumn(allCards, Range(cards), Range(publicCards))
                     ELSE << >>)
  IN IF Len(updates) > 0 THEN <<updates>> ELSE << >>

\* the loop of applyRowElimination skipping only the cells that are not
RECURSIVE rowEliminationUpdatesOverHas(_, _, _, _)
rowEliminationUpdatesOverHas(marks, cardId, hasPlayerId, playerId) ==
  IF playerId > PLAYER_COL_COUNT THEN << >>
  ELSE LET currentMark == getCellMark(marks, cardId, playerId)
           rest == rowEliminationUpdatesOverHas(marks, cardId, hasPlayerId, playerId + 1)
       IN IF playerId = hasPlayerId THEN rest
          ELSE IF currentMark.primary = "not" THEN rest
          ELSE <<Update(cardId, playerId, withPrimary(currentMark, "not"))>> \o rest

\* the loop of applyRowElimination writing a fresh not mark
RECURSIVE rowEliminationUpdatesPlainNot(_, _, _, _)
rowEliminationUpdatesPlainNot(marks, cardId, hasPlayerId, playerId) ==
  IF playerId > PLAYER_COL_COUNT THEN << >>
  ELSE LET currentMark == getCellMark(marks, cardId, playerId)
           rest == rowEliminationUpdatesPlainNot(marks, cardId, hasPlayerId, playerId + 1)
       IN IF playerId = hasPlayerId THEN rest
          ELSE IF currentMark.primary = "not" \/ currentMark.primary = "has" THEN rest
          ELSE <<Update(cardId, playerId, createMark("not", {}, {}))>> \o rest

\* the loop of applyRowElimination from column playerId on
RECURSIVE rowEliminationUpdates(_, _, _, _)
rowEliminationUpdates(marks, cardId, hasPlayerId, playerId) ==
  IF playerId > PLAYER_COL_COUNT THEN << >>
  ELSE LET currentMark == getCellMark(marks, cardId, playerId)
           rest == rowEliminationUpdates(marks, cardId, hasPlayerId, playerId + 1)
       IN IF playerId = hasPlayerId THEN rest
          ELSE IF currentMark.primary = "not" \/ currentMark.primary = "has" THEN rest
          ELSE <<Update(cardId, playerId, withPrimary(currentMark, "not"))>> \o rest

\* applyRowElimination with the loop starting at column 2
applyRowEliminationFromColumn2(marks, cardId, hasPlayerId) ==
  LET updates == rowEliminationUpdates(marks, cardId, hasPlayerId, 2)
  IN IF Len(updates) > 0 THEN <<updates>> ELSE << >>

\* applyRowElimination that goes on with the row of the next card
applyRowEliminationTwoRows(marks, cardId, hasPlayerId) ==
  LET nextCardId == IF cardId + 1 \in Cards THEN cardId + 1 ELSE FirstCard
      updates == rowEliminationUpdates(marks, cardId, hasPlayerId, 1)
                 \o rowEliminationUpdates(marks, nextCardId, hasPlayerId, 1)
  IN IF Len(updates) > 0 THEN <<updates>> ELSE << >>

\* the batches queued by applyRowElimination
applyRowElimination(marks, cardId, hasPlayerId) ==
  LET updates == rowEliminationUpdates(marks, cardId, hasPlayerId, 1)
  IN IF Len(updates) > 0 THEN <<updates>> ELSE << >>

\* one pass of the loop of applyLastMaybeDeduction that, after the row
\* elimination of a resolved cell, runs the resolution once more
lastMaybeForNumberRerun(marks, rowElimination, playerId, num) ==
  LET cellsWithNumber == findNumberInColumn(marks, playerId, num)
      hasHasCell == \E cid \in cellsWithNumber : getCellMark(marks, cid, playerId).primary = "has"
      candidateCells == {cid \in cellsWithNumber : getCellMark(marks, cid, playerId).primary # "not"}
  IN IF hasHasCell THEN << >>
     ELSE IF Cardinality(candidateCells) = 1
     THEN LET targetCardId == CHOOSE cid \in candidateCells : TRUE
              targetMark == getCellMark(marks, targetCardId, playerId)
              once == <<<<Update(targetCardId, playerId, withPrimary(targetMark, "has"))>>>>
                      \o (IF rowElimination
                          THEN applyRowElimination(marks, targetCardId, playerId)
                          ELSE << >>)
          IN once \o once
     ELSE << >>

\* one pass of the loop of applyLastMaybeDeduction without the test on
\* hasHasCell
lastMaybeForNumberUnguarded(marks, rowElimination, playerId, num) ==
  LET cellsWithNumber == findNumberInColumn(marks, playerId, num)
      candidateCells == {cid \in cellsWithNumber : getCellMark(marks, cid, playerId).primary # "not"}
  IN IF Cardinality(candidateCells) = 1
     THEN LET targetCardId == CHOOSE cid \in candidateCells : TRUE
              targetMark == getCellMark(marks, targetCardId, playerId)
          IN <<<<Update(targetCardId, playerId, withPrimary(targetMark, "has"))>>>>
             \o (IF rowElimination THEN applyRowElimination(marks, targetCardId, playerId)
                 ELSE << >>)
     ELSE << >>

\* one pass of the loop of applyLastMaybeDeduction without the call of
\* applyRowElimination
lastMaybeForNumberNoChain(marks, rowElimination, playerId, num) ==
  LET cellsWithNumber == findNumberInColumn(marks, playerId, num)
      hasHasCell == \E cid \in cellsWithNumber : getCellMark(marks, cid, playerId).primary = "has"
      candidateCells == {cid \in cellsWithNumber : getCellMark(marks, cid, playerId).primary # "not"}
  IN IF hasHasCell THEN << >>
     ELSE IF Cardinality(candidateCells) = 1
     THEN LET targetCardId == CHOOSE cid \in candidateCells : TRUE
              targetMark == getCellMark(marks, targetCardId, playerId)
          IN <<<<Update(targetCardId, playerId, withPrimary(targetMark, "has"))>>>>
     ELSE << >>

\* the batches queued by one pass of the loop of applyLastMaybeDeduction
lastMaybeForNumber(marks, rowElimination, playerId, num) ==
  LET cellsWithNumber == findNumberInColumn(marks, playerId, num)
      hasHasCell == \E cid \in cellsWithNumber : getCellMark(marks, cid, playerId).primary = "has"
      candidateCells == {cid \in cellsWithNumber : getCellMark(marks, cid, playerId).primary # "not"}
  IN IF hasHasCell THEN << >>
     ELSE IF Cardinality(candidateCells) = 1
     THEN LET targetCardId == CHOOSE cid \in candidateCells : TRUE
              targetMark == getCellMark(marks, targetCardId, playerId)
          IN <<<<Update(targetCardId, playerId, withPrimary(targetMark, "has"))>>>>
             \o (IF rowElimination THEN applyRowElimination(marks, targetCardId, playerId)
                 ELSE << >>)
     ELSE << >>

\* the loop over mark.numbers, in the iteration order of the Set
RECURSIVE lastMaybeLoop(_, _, _, _)
lastMaybeLoop(marks, rowElimination, playerId, order) ==
  IF order = << >> THEN << >>
  ELSE lastMaybeForNumber(marks, rowElimination, playerId, Head(order))
       \o lastMaybeLoop(marks, rowElimination, playerId, Tail(order))

\* the batches queued by applyLastMaybeDeduction; order lists mark.numbers
applyLastMaybeDeduction(marks, rowElimination, cardId, playerId, order) ==
  LET mark == getCellMark(marks, cardId, playerId)
  IN IF Cardinality(mark.numbers) = 0 THEN << >>
     ELSE lastMaybeLoop(marks, rowElimination, playerId, order)

\* canToggleNumber of createValidation: the allowed flag
canToggleNumber(currentMark, autoRules, num) ==
  LET isAdding == num \notin currentMark.numbers
  IN IF isAdding /\ isConstraintRequired("numbersOnlyOnEmptyOrBars", autoRules)
     THEN IF currentMark.primary = "has" \/ currentMark.primary = "not" THEN FALSE ELSE TRUE
     ELSE TRUE

\* the deductions that a row elimination would start if it ran
\* applyLastMaybeDeduction on every cell it has turned not, column by column
RECURSIVE deductionsAfterElimination(_, _, _, _, _, _)
deductionsAfterElimination(before, after, autoRules, cardId, hasPlayerId, playerId) ==
  IF playerId > PLAYER_COL_COUNT THEN << >>
  ELSE (IF /\ playerId # hasPlayerId
           /\ getCellMark(before, cardId, playerId).primary \notin {"not", "has"}
        THEN applyLastMaybeDeduction(after, autoRules.rowElimination, cardId, playerId,
                                     SortedSeq(getCellMark(after, cardId, playerId).numbers))
        ELSE << >>)
       \o deductionsAfterElimination(before, after, autoRules, cardId, hasPlayerId, playerId + 1)

\* handleMarkHas with a row elimination that goes on to the last-maybe
\* deduction of the cells it has turned not
handleMarkHasThenDeduction(marks, autoRules, cardId, playerId) ==
  LET after == applyQueue(setCellMark(marks, cardId, playerId,
                                      withPrimary(getCellMark(marks, cardId, playerId), "has")),
                          IF autoRules.rowElimination
                          THEN applyRowElimination(marks, cardId, playerId) ELSE << >>)
  IN IF autoRules.rowElimination /\ autoRules.lastMaybeDeduction
     THEN applyQueue(after, deductionsAfterElimination(marks, after, autoRules,
                                                       cardId, playerId, 1))
     ELSE after

\* handleMarkHas applying the row elimination whatever the rules say
handleMarkHasAlwaysEliminating(marks, autoRules, cardId, playerId) ==
  applyQueue(setCellMark(marks, cardId, playerId,
                         withPrimary(getCellMark(marks, cardId, playerId), "has")),
             applyRowElimination(marks, cardId, playerId))

\* the map queued by handleMarkHas
handleMarkHas(marks, autoRules, cardId, playerId) ==
  applyQueue(setCellMark(marks, cardId, playerId,
                         withPrimary(getCellMark(marks, cardId, playerId), "has")),
             IF autoRules.rowElimination
             THEN applyRowElimination(marks, cardId, playerId) ELSE << >>)

\* the map queued by handleMarkNot
handleMarkNot(marks, autoRules, cardId, playerId, order) ==
  applyQueue(setCellMark(marks, cardId, playerId,
                         withPrimary(getCellMark(marks, cardId, playerId), "not")),
             IF autoRules.lastMaybeDeduction
             THEN applyLastMaybeDeduction(marks, autoRules.rowElimination, cardId, playerId, order)
             ELSE << >>)

\* the map queued by handleToggleNumber
handleToggleNumber(marks, autoRules, cardId, playerId, num) ==
  LET currentMark == getCellMark(marks, cardId, playerId)
      isRemoving == num \in currentMark.numbers
  IN IF isRemoving /\ isConstraintRequired("numberToggleRemovesFromColumn", autoRules)
     THEN removeNumberFromColumn(marks, playerId, num)
     ELSE setCellMark(marks, cardId, playerId, withToggledNumber(currentMark, num))

\* the map queued by handleToggleBar
handleToggleBar(marks, cardId, playerId, color) ==
  setCellMark(marks, cardId, playerId,
              withToggledBarColor(getCellMark(marks, cardId, playerId), color))

\* handleClearMark taking only the primary off the cell
handleClearMarkKeepingNumbers(marks, cardId, playerId) ==
  setCellMark(marks, cardId, playerId, withPrimary(getCellMark(marks, cardId, playerId), "empty"))

\* the map queued by handleClearMark
handleClearMark(marks, cardId, playerId) == setCellMark(marks, cardId, playerId, EMPTY_MARK)

----------------------------------------------------------------------------
(* Derived predicate: ui/SheetGrid.tsx *)

isMurderItem(marks, autoRules, cardId) ==
  /\ autoRules.murderDetection
  /\ ~isRowLocked(cardId)
  /\ \A playerId \in 1..PLAYER_COL_COUNT : getCellMark(marks, cardId, playerId).primary = "not"

----------------------------------------------------------------------------
(* Application configuration: domain/config.ts, and the draft of it that   *)
(* ui/SettingsModal.tsx edits                                              *)

MIN_PLAYERS == 2
MAX_PLAYERS == 6
MURDER_ITEMS_COUNT == 3

ALL_PLAYER_IDS == 1..MAX_PLAYERS

PLAYER_COLORS == <<"#111827f2", "#ffffffff", "#0082c8", "#f58231", "#911eb4", "#46f0f0">>

THEMES == {"onePiece", "harryPotter"}

CARDS_ONE_PIECE == 1..21
CARDS_HARRY_POTTER == 1..21

getCards(themeId) ==
  CASE themeId = "onePiece" -> CARDS_ONE_PIECE
    [] themeId = "harryPotter" -> CARDS_HARRY_POTTER

\* deriveGameParams counting the murder items among the distributable cards
deriveGameParamsAllCards(totalCards, playerCount) ==
  [handSize |-> totalCards \div playerCount,
   publicCount |-> totalCards % playerCount]

deriveGameParams(totalCards, playerCount) ==
  LET distributableCards == totalCards - MURDER_ITEMS_COUNT
  IN [handSize |-> distributableCards \div playerCount,
      publicCount |-> distributableCards % playerCount]

createDefaultPlayer(id) ==
  [id |-> id,
   name |-> IF id = 1 THEN <<"Y", "o", "u">> ELSE <<"P">> \o NumberToString(id),
   color |-> PLAYER_COLORS[id]]

DEFAULT_AUTO_RULES == [r \in AutoRuleIds |-> FALSE]

DEFAULT_CONFIG ==
  [themeId |-> "onePiece",
   players |-> [i \in 1..4 |-> createDefaultPlayer(i)],
   autoRules |-> DEFAULT_AUTO_RULES]

\* the initial value of playerNames for the given active configuration
initialPlayerNames(activeConfig) ==
  [id \in ALL_PLAYER_IDS |->
     IF \E i \in 1..Len(activeConfig.players) : activeConfig.players[i].id = id
     THEN activeConfig.players[CHOOSE i \in 1..Len(activeConfig.players) :
                                 activeConfig.players[i].id = id].name
     ELSE createDefaultPlayer(id).name]

\* enabledPlayerIds of a render of the modal
idsOf(players) == {players[i].id : i \in 1..Len(players)}

\* draft.players.filter((p) => p.id < id)
RECURSIVE playersBelow(_, _)
playersBelow(players, id) ==
  IF players = << >> THEN << >>
  ELSE (IF Head(players).id < id THEN <<Head(players)>> ELSE << >>)
       \o playersBelow(Tail(players), id)

\* togglePlayer taking out the one player only
togglePlayerOnlyThatPlayer(prev, names, id) ==
  IF id <= 2 THEN prev
  ELSE IF id \in idsOf(prev.players)
  THEN [prev EXCEPT !.players = playersBelow(prev.players, id)
                                \o SelectSeq(prev.players, LAMBDA p : p.id > id)]
  ELSE [prev EXCEPT !.players =
          [pid \in 1..id |-> [id |-> pid, name |-> names[pid], color |-> PLAYER_COLORS[pid]]]]

\* the draft queued by togglePlayer
togglePlayer(prev, names, id) ==
  IF id <= 2 THEN prev
  ELSE IF id \in idsOf(prev.players)
  THEN [prev EXCEPT !.players = playersBelow(prev.players, id)]
  ELSE [prev EXCEPT !.players =
          [pid \in 1..id |-> [id |-> pid, name |-> names[pid], color |-> PLAYER_COLORS[pid]]]]

isPlayerCheckboxDisabled(enabled, id) ==
  IF id <= 2 THEN TRUE
  ELSE IF id = 3 THEN FALSE
  ELSE IF id \in enabled
  THEN \E higher \in (id + 1)..MAX_PLAYERS : higher \in enabled
  ELSE (id - 1) \notin enabled

----------------------------------------------------------------------------
(* The application: App.tsx, ui/Sheet.tsx, ui/SheetGrid.tsx,               *)
(* ui/MarkerBar.tsx, ui/SettingsModal.tsx                                  *)

MaxShownPlayer == 3    \* shown-to toggles are drawn from players 2..MaxShownPlayer
MaxClickPlayer == 2    \* cell clicks are drawn from columns 1..MaxClickPlayer

Configs == [handSize : 0..MaxHandSize,
            publicCount : 0..MaxPublicCount,
            autoRules : AutoRulesConfigs]

NoProbe == [op |-> "none", calls |-> {}]

\* no modal dialog covers the sheet
sheetActive == ~settingsOpen /\ ~showConfirmDialog /\ ~showValidationDialog

selCard == selectedCell[1]
selPlayer == selectedCell[2]
currentMark == getCellMark(cellMarks, selCard, selPlayer)

Init ==
  /\ config \in Configs
  /\ setupState = createInitialSetup(config.publicCount)
  /\ settingsOpen = FALSE
  /\ cellMarks = EmptyMap
  /\ shownToState = EmptyShownTo
  /\ selectedCell = NoCell
  /\ selectedOwnedCard = NoCard
  /\ showConfirmDialog = FALSE
  /\ lastEvent = "init"
  /\ writesDone = 0
  /\ probe = NoProbe
  /\ pendingUpdates = << >>
  /\ showValidationDialog = FALSE
  /\ draft = DEFAULT_CONFIG
  /\ playerNames = initialPlayerNames(DEFAULT_CONFIG)

\* SheetGrid MarkCell onClick, then Sheet handleCellClick
HandleCellClick(cardId, playerId) ==
  /\ sheetActive
  /\ ~(isGridDisabled \/ isRowLocked(cardId)
        \/ (playerId = 1 /\ effectivePhase = "playing"
            /\ ~isPublicCard(cardId) /\ ~isOwnerCard(cardId)))
  /\ ~isGridDisabled
  /\ ~(isPublicCard(cardId) \/ isOwnerCard(cardId))
  /\ selectedOwnedCard' = NoCard
  /\ selectedCell' = <<cardId, playerId>>
  /\ lastEvent' = "cellClick"
  /\ UNCHANGED <<config, setupState, settingsOpen, cellMarks, shownToState,
                 showConfirmDialog, writesDone, probe, pendingUpdates, showValidationDialog,
                 draft, playerNames>>

\* MarkerBar close button, Sheet handleCloseMarkerBar
HandleCloseMarkerBar ==
  /\ sheetActive
  /\ selectedCell # NoCell
  /\ selectedCell' = NoCell
  /\ lastEvent' = "closeMarkerBar"
  /\ UNCHANGED <<config, setupState, settingsOpen, cellMarks, shownToState,
                 selectedOwnedCard, showConfirmDialog, writesDone, probe, pendingUpdates, showValidationDialog,
                 draft, playerNames>>

\* MarkerBar handleHasClick: onClear on a has cell, otherwise onMarkHas
HandleHasClick ==
  /\ sheetActive
  /\ selectedCell # NoCell
  /\ writesDone < MaxWrites
  /\ IF currentMark.primary = "has"
     THEN /\ cellMarks' = handleClearMark(cellMarks, selCard, selPlayer)
          /\ selectedCell' = selectedCell
          /\ lastEvent' = "clearMark"
     ELSE /\ cellMarks' = handleMarkHas(cellMarks, config.autoRules, selCard, selPlayer)
          /\ selectedCell' = NoCell
          /\ lastEvent' = "markHas"
  /\ writesDone' = writesDone + 1
  /\ UNCHANGED <<config, setupState, settingsOpen, shownToState, selectedOwnedCard,
                 showConfirmDialog, probe, pendingUpdates, showValidationDialog,
                 draft, playerNames>>

\* MarkerBar handleNotClick: onClear on a not cell, otherwise onMarkNot
HandleNotClick ==
  /\ sheetActive
  /\ selectedCell # NoCell
  /\ writesDone < MaxWrites
  /\ IF currentMark.primary = "not"
     THEN /\ cellMarks' = handleClearMark(cellMarks, selCard, selPlayer)
          /\ selectedCell' = selectedCell
          /\ lastEvent' = "clearMark"
     ELSE /\ \E order \in Orderings(currentMark.numbers) :
               cellMarks' = handleMarkNot(cellMarks, config.autoRules, selCard, selPlayer, order)
          /\ selectedCell' = NoCell
          /\ lastEvent' = "markNot"
  /\ writesDone' = writesDone + 1
  /\ UNCHANGED <<config, setupState, settingsOpen, shownToState, selectedOwnedCard,
                 showConfirmDialog, probe, pendingUpdates, showValidationDialog,
                 draft, playerNames>>

\* MarkerBar handleNumberClick, then Sheet handleToggleNumber
HandleNumberClick(num) ==
  /\ sheetActive
  /\ selectedCell # NoCell
  /\ writesDone < MaxWrites
  /\ canToggleNumber(currentMark, config.autoRules, num)
  /\ cellMarks' = handleToggleNumber(cellMarks, config.autoRules, selCard, selPlayer, num)
  /\ lastEvent' = "toggleNumber"
  /\ writesDone' = writesDone + 1
  /\ UNCHANGED <<config, setupState, settingsOpen, shownToState, selectedCell,
                 selectedOwnedCard, showConfirmDialog, probe, pendingUpdates, showValidationDialog,
                 draft, playerNames>>

\* MarkerBar handleBarClick, then Sheet handleToggleBar
HandleBarClick(color) ==
  /\ sheetActive
  /\ selectedCell # NoCell
  /\ writesDone < MaxWrites
  /\ cellMarks' = handleToggleBar(cellMarks, selCard, selPlayer, color)
  /\ lastEvent' = "toggleBar"
  /\ writesDone' = writesDone + 1
  /\ UNCHANGED <<config, setupState, settingsOpen, shownToState, selectedCell,
                 selectedOwnedCard, showConfirmDialog, probe, pendingUpdates, showValidationDialog,
                 draft, playerNames>>

\* the card cell toggling the selection of locked rows as well
HandleCardSelectionAnyRow(cardId) ==
  /\ sheetActive
  /\ isInSetup
  /\ setupState' = toggleCardSelection(setupState, cardId)
  /\ lastEvent' = "toggleCardSelection"
  /\ UNCHANGED <<config, settingsOpen, cellMarks, shownToState, selectedCell,
                 selectedOwnedCard, showConfirmDialog, writesDone, probe, pendingUpdates,
                 showValidationDialog,
                 draft, playerNames>>

\* SheetGrid handleCardCellClick in setup: App toggleCardSelection
HandleCardSelection(cardId) ==
  /\ sheetActive
  /\ isInSetup /\ ~isRowLocked(cardId)
  /\ setupState' = toggleCardSelection(setupState, cardId)
  /\ lastEvent' = "toggleCardSelection"
  /\ UNCHANGED <<config, settingsOpen, cellMarks, shownToState, selectedCell,
                 selectedOwnedCard, showConfirmDialog, writesDone, probe, pendingUpdates, showValidationDialog,
                 draft, playerNames>>

\* SheetGrid handleCardCellClick after setup: Sheet handleOwnedCardClick
HandleOwnedCardClick(cardId) ==
  /\ sheetActive
  /\ ~(isInSetup /\ ~isRowLocked(cardId))
  /\ ~isInSetup /\ isOwnerCard(cardId)
  /\ selectedCell' = NoCell
  /\ selectedOwnedCard' = IF selectedOwnedCard = cardId THEN NoCard ELSE cardId
  /\ lastEvent' = "ownedCardClick"
  /\ UNCHANGED <<config, setupState, settingsOpen, cellMarks, shownToState,
                 showConfirmDialog, writesDone, probe, pendingUpdates, showValidationDialog,
                 draft, playerNames>>

\* PlayerSelectBar button, Sheet handleToggleShownToPlayer
HandleToggleShownToPlayer(playerId) ==
  /\ sheetActive
  /\ selectedOwnedCard # NoCard
  /\ shownToState' = toggleShownTo(shownToState, selectedOwnedCard, playerId)
  /\ lastEvent' = "toggleShownTo"
  /\ UNCHANGED <<config, setupState, settingsOpen, cellMarks, selectedCell,
                 selectedOwnedCard, showConfirmDialog, writesDone, probe, pendingUpdates, showValidationDialog,
                 draft, playerNames>>

\* PlayerSelectBar close button
HandleClosePlayerSelectBar ==
  /\ sheetActive
  /\ selectedOwnedCard # NoCard
  /\ selectedOwnedCard' = NoCard
  /\ lastEvent' = "closePlayerSelectBar"
  /\ UNCHANGED <<config, setupState, settingsOpen, cellMarks, shownToState,
                 selectedCell, showConfirmDialog, writesDone, probe, pendingUpdates, showValidationDialog,
                 draft, playerNames>>

\* ActionBar confirm button, Sheet handleConfirmClick
HandleConfirmClick ==
  /\ sheetActive
  /\ isInSetup
  /\ IF validateSelection(Len(setupState.currentSelection),
                          requiredCount(effectivePhase, config.publicCount, config.handSize))
     THEN /\ showConfirmDialog' = TRUE
          /\ showValidationDialog' = showValidationDialog
          /\ lastEvent' = "confirmClick"
     ELSE /\ showValidationDialog' = TRUE
          /\ showConfirmDialog' = showConfirmDialog
          /\ lastEvent' = "validationFailed"
  /\ UNCHANGED <<config, setupState, settingsOpen, cellMarks, shownToState,
                 selectedCell, selectedOwnedCard, writesDone, probe, pendingUpdates,
                 draft, playerNames>>

\* InfoDialog onClose of the validation dialog
HandleValidationClose ==
  /\ showValidationDialog
  /\ showValidationDialog' = FALSE
  /\ lastEvent' = "validationClose"
  /\ UNCHANGED <<config, setupState, settingsOpen, cellMarks, shownToState,
                 selectedCell, selectedOwnedCard, showConfirmDialog, writesDone,
                 probe, pendingUpdates,
                 draft, playerNames>>

\* ConfirmDialog onConfirm: Sheet handleConfirmed with App confirmPhase
HandleConfirmed ==
  /\ showConfirmDialog
  /\ showConfirmDialog' = FALSE
  /\ setupState' = confirmPhaseState(setupState, effectivePhase,
                                     setupState.currentSelection, config.handSize)
  /\ cellMarks' = IF confirmPhaseCardType(effectivePhase) # "none"
                  THEN applyQueue(cellMarks,
                         applyMarksForCards(setupState.currentSelection,
                                            confirmPhaseCardType(effectivePhase),
                                            setupState.publicCards))
                  ELSE cellMarks
  /\ lastEvent' = "confirmed"
  /\ UNCHANGED <<config, settingsOpen, shownToState, selectedCell,
                 selectedOwnedCard, writesDone, probe, pendingUpdates, showValidationDialog,
                 draft, playerNames>>

\* ConfirmDialog onCancel
HandleConfirmCancel ==
  /\ showConfirmDialog
  /\ showConfirmDialog' = FALSE
  /\ lastEvent' = "confirmCancel"
  /\ UNCHANGED <<config, setupState, settingsOpen, cellMarks, shownToState,
                 selectedCell, selectedOwnedCard, writesDone, probe, pendingUpdates, showValidationDialog,
                 draft, playerNames>>

\* ActionBar settings button, App openSettings
OpenSettings ==
  /\ sheetActive
  /\ writesDone < MaxWrites
  /\ settingsOpen' = TRUE
  /\ lastEvent' = "openSettings"
  /\ UNCHANGED <<config, setupState, cellMarks, shownToState, selectedCell,
                 selectedOwnedCard, showConfirmDialog, writesDone, probe, pendingUpdates, showValidationDialog,
                 draft, playerNames>>

\* SettingsModal handleSaveConfirmed when saveConfig returns: App resetGame
\* (with the config of the current render), onSaved, onClose
HandleSaveConfirmed(nextConfig) ==
  /\ settingsOpen
  /\ writesDone < MaxWrites
  /\ cellMarks' = resetAll
  /\ shownToState' = EmptyShownTo
  /\ setupState' = createInitialSetup(config.publicCount)
  /\ config' = nextConfig
  /\ settingsOpen' = FALSE
  /\ lastEvent' = "settingsSaved"
  /\ writesDone' = writesDone + 1
  /\ UNCHANGED <<selectedCell, selectedOwnedCard, showConfirmDialog, probe, pendingUpdates, showValidationDialog,
                 draft, playerNames>>

\* SettingsModal handleSaveConfirmed asking for the reset before saveConfig throws
HandleSaveFailedAfterReset ==
  /\ settingsOpen
  /\ cellMarks' = resetAll
  /\ shownToState' = EmptyShownTo
  /\ setupState' = createInitialSetup(config.publicCount)
  /\ lastEvent' = "settingsFailed"
  /\ UNCHANGED <<config, settingsOpen, selectedCell, selectedOwnedCard,
                 showConfirmDialog, writesDone, probe, pendingUpdates, showValidationDialog,
                 draft, playerNames>>

\* SettingsModal handleSaveConfirmed when saveConfig throws
HandleSaveFailed ==
  /\ settingsOpen
  /\ lastEvent' = "settingsFailed"
  /\ UNCHANGED <<config, setupState, settingsOpen, cellMarks, shownToState,
                 selectedCell, selectedOwnedCard, showConfirmDialog, writesDone, probe, pendingUpdates, showValidationDialog,
                 draft, playerNames>>

\* SettingsModal handleDiscardConfirmed
HandleDiscardConfirmed ==
  /\ settingsOpen
  /\ settingsOpen' = FALSE
  /\ lastEvent' = "settingsDiscarded"
  /\ UNCHANGED <<config, setupState, cellMarks, shownToState, selectedCell,
                 selectedOwnedCard, showConfirmDialog, writesDone, probe, pendingUpdates, showValidationDialog,
                 draft, playerNames>>

Next ==
  \/ \E cardId \in Cards, playerId \in 1..MaxClickPlayer : HandleCellClick(cardId, playerId)
  \/ HandleCloseMarkerBar
  \/ HandleHasClick
  \/ HandleNotClick
  \/ \E num \in NUMBER_MARKER_KEYS : HandleNumberClick(num)
  \/ \E color \in BAR_COLOR_KEYS : HandleBarClick(color)
  \/ \E cardId \in Cards : HandleCardSelection(cardId)
  \/ \E cardId \in Cards : HandleOwnedCardClick(cardId)
  \/ \E playerId \in 2..MaxShownPlayer : HandleToggleShownToPlayer(playerId)
  \/ HandleClosePlayerSelectBar
  \/ HandleConfirmClick
  \/ HandleValidationClose
  \/ HandleConfirmed
  \/ HandleConfirmCancel
  \/ OpenSettings
  \/ \E nextConfig \in Configs : HandleSaveConfirmed(nextConfig)
  \/ HandleSaveFailed
  \/ HandleDiscardConfirmed

Spec == Init /\ [][Next]_vars

----------------------------------------------------------------------------
(* The marker bar at work in the middle of a game.  The setup wizard is    *)
(* off (handSize = 0 and publicCount = 0), so every row is free, and the   *)
(* grid is one that earlier marker events have left behind.  Any grid is   *)
(* such a grid in columns 2..6: set the primaries first, while no cell     *)
(* carries a number (no deduction fires), clear what row elimination has   *)
(* written where the cell is to be empty, then toggle numbers and bars.    *)
(* Column 1 is never clickable while playing; only row elimination writes  *)
(* it, and it writes not with no numbers.                                  *)
(*                                                                         *)
(* The rules record here carries a third flag, murderDetection, which is   *)
(* the one SheetGrid reads (SettingsModal lists it among the rules the     *)
(* user can switch).                                                       *)

MaxPlayWrites == 1     \* marker-bar writes explored from each mid-game grid
MaxSeedColumn == 3     \* mid-game rows are populated in columns 2..MaxSeedColumn

SheetAutoRuleIds == AutoRuleIds \cup {"murderDetection"}

PlayConfigs == [handSize : {0}, publicCount : {0}, autoRules : [SheetAutoRuleIds -> BOOLEAN]]

\* the number that the mid-game cells carry
seedNumber == MaxNumberKey

SeedCellMarks ==
  {EMPTY_MARK,
   createMark("not", {}, {}),
   createMark("has", {}, {}),
   createMark("empty", {seedNumber}, {}),
   createMark("not", {seedNumber}, {}),
   createMark("has", {seedNumber}, {}),
   createMark("empty", NUMBER_MARKER_KEYS, {}),
   createMark("bars", {}, BAR_COLOR_KEYS)}

\* the store holding f[cell] at every cell of cells
RECURSIVE gridOf(_, _)
gridOf(cells, f) ==
  IF cells = {} THEN EmptyMap
  ELSE LET cell == CHOOSE x \in cells : TRUE
       IN setCellMark(gridOf(cells \ {cell}, f), cell[1], cell[2], f[cell])

\* one row in use: columns 2..MaxSeedColumn hold any marks; the columns
\* beyond are all untouched or all not (column 1 only under row elimination)
RowSeeds(rowElimination) ==
  {gridOf({cardId} \X Players,
          [cell \in {cardId} \X Players |->
             IF cell[2] \in 2..MaxSeedColumn THEN near[cell[2]] ELSE far])
     : cardId \in Cards,
       near \in [2..MaxSeedColumn -> SeedCellMarks],
       far \in IF rowElimination THEN {EMPTY_MARK, createMark("not", {}, {})}
               ELSE {EMPTY_MARK}}

\* one column in use: the last clickable column holds any marks
ColumnSeeds ==
  {gridOf(Cards \X {MaxClickPlayer}, [cell \in Cards \X {MaxClickPlayer} |-> col[cell[1]]])
     : col \in [Cards -> SeedCellMarks]}

\* the marks of a column next to the clicked one
NeighbourSeedMarks ==
  {EMPTY_MARK,
   createMark("empty", {seedNumber}, {}),
   createMark("not", {seedNumber}, {}),
   createMark("empty", NUMBER_MARKER_KEYS, {})}

\* one column in use that no click reaches: a has in the column before it
\* reaches it by row elimination only
NeighbourColumnSeeds ==
  {gridOf(Cards \X {MaxSeedColumn}, [cell \in Cards \X {MaxSeedColumn} |-> col[cell[1]]])
     : col \in [Cards -> NeighbourSeedMarks]}

InitPlay ==
  /\ config \in PlayConfigs
  /\ setupState = createInitialSetup(config.publicCount)
  /\ settingsOpen = FALSE
  /\ cellMarks \in RowSeeds(config.autoRules.rowElimination) \cup ColumnSeeds
                   \cup NeighbourColumnSeeds
  /\ shownToState = EmptyShownTo
  /\ selectedCell = NoCell
  /\ selectedOwnedCard = NoCard
  /\ showConfirmDialog = FALSE
  /\ lastEvent = "init"
  /\ writesDone = MaxWrites - MaxPlayWrites
  /\ probe = NoProbe
  /\ pendingUpdates = << >>
  /\ showValidationDialog = FALSE
  /\ draft = DEFAULT_CONFIG
  /\ playerNames = initialPlayerNames(DEFAULT_CONFIG)

NextPlay ==
  \/ \E cardId \in Cards, playerId \in 1..MaxClickPlayer : HandleCellClick(cardId, playerId)
  \/ HandleCloseMarkerBar
  \/ HandleHasClick
  \/ HandleNotClick
  \/ \E num \in NUMBER_MARKER_KEYS : HandleNumberClick(num)
  \/ \E color \in BAR_COLOR_KEYS : HandleBarClick(color)

SpecPlay == InitPlay /\ [][NextPlay]_vars

----------------------------------------------------------------------------
(* A game played from the empty grid with rowElimination switched on all   *)
(* the way: no setup (handSize = 0 and publicCount = 0), every marker      *)
(* event of the sheet, cell clicks over the first columns.                 *)

MaxGamePlayer == 3     \* cell clicks of the game are drawn from columns 1..MaxGamePlayer

GameConfigs == {c \in PlayConfigs : c.autoRules.rowElimination}

InitGame ==
  /\ config \in GameConfigs
  /\ setupState = createInitialSetup(config.publicCount)
  /\ settingsOpen = FALSE
  /\ cellMarks = EmptyMap
  /\ shownToState = EmptyShownTo
  /\ selectedCell = NoCell
  /\ selectedOwnedCard = NoCard
  /\ showConfirmDialog = FALSE
  /\ lastEvent = "init"
  /\ writesDone = 0
  /\ probe = NoProbe
  /\ pendingUpdates = << >>
  /\ showValidationDialog = FALSE
  /\ draft = DEFAULT_CONFIG
  /\ playerNames = initialPlayerNames(DEFAULT_CONFIG)

NextGame ==
  \/ \E cardId \in Cards, playerId \in 1..MaxGamePlayer : HandleCellClick(cardId, playerId)
  \/ HandleCloseMarkerBar
  \/ HandleHasClick
  \/ HandleNotClick
  \/ \E num \in NUMBER_MARKER_KEYS : HandleNumberClick(num)
  \/ \E color \in BAR_COLOR_KEYS : HandleBarClick(color)

SpecGame == InitGame /\ [][NextGame]_vars

----------------------------------------------------------------------------
(* The marker bar with React's updater queue made explicit.  A handler     *)
(* runs inside a click event of a root made by createRoot: each setState   *)
(* call it makes appends an updater to the queue and leaves the state of   *)
(* the current render as it is; when the handler has returned React        *)
(* processes the whole queue and renders once.  A reader (a render, the    *)
(* getCellMark of the next handler) sees cellMarks, never the queue.       *)

\* setCellMarks((prev) => ...) of setCellMark (one update) or batchSetMarks
CellMarksUpdater(updates) == [state |-> "cellMarks", updates |-> updates]

\* setSelectedCell(null) of handleCloseMarkerBar
SelectedCellUpdater == [state |-> "selectedCell"]

\* one updater for each batch: the batchSetMarks calls of a cascade rule
batchUpdaters(batches) == [i \in 1..Len(batches) |-> CellMarksUpdater(batches[i])]

\* the setState calls of handleMarkHas, in order
markHasUpdaters(marks, autoRules, cardId, playerId) ==
  <<CellMarksUpdater(<<Update(cardId, playerId,
                              withPrimary(getCellMark(marks, cardId, playerId), "has"))>>)>>
  \o batchUpdaters(IF autoRules.rowElimination
                   THEN applyRowElimination(marks, cardId, playerId) ELSE << >>)
  \o <<SelectedCellUpdater>>

\* the setState calls of handleMarkNot, in order
markNotUpdaters(marks, autoRules, cardId, playerId, order) ==
  <<CellMarksUpdater(<<Update(cardId, playerId,
                              withPrimary(getCellMark(marks, cardId, playerId), "not"))>>)>>
  \o batchUpdaters(IF autoRules.lastMaybeDeduction
                   THEN applyLastMaybeDeduction(marks, autoRules.rowElimination,
                                                cardId, playerId, order)
                   ELSE << >>)
  \o <<SelectedCellUpdater>>

\* the setState call of handleClearMark
clearMarkUpdaters(cardId, playerId) ==
  <<CellMarksUpdater(<<Update(cardId, playerId, EMPTY_MARK)>>)>>

\* React processing the queued cellMarks updaters in order
RECURSIVE processCellMarksUpdaters(_, _)
processCellMarksUpdaters(prev, queue) ==
  IF queue = << >> THEN prev
  ELSE processCellMarksUpdaters(
         IF Head(queue).state = "cellMarks"
         THEN batchSetMarks(prev, Head(queue).updates) ELSE prev,
         Tail(queue))

\* MarkerBar handleHasClick while the handler runs: the updaters are queued
DispatchHasClick ==
  /\ pendingUpdates = << >>
  /\ sheetActive
  /\ selectedCell # NoCell
  /\ writesDone < MaxWrites
  /\ IF currentMark.primary = "has"
     THEN /\ pendingUpdates' = clearMarkUpdaters(selCard, selPlayer)
          /\ lastEvent' = "clearMark"
     ELSE /\ pendingUpdates' = markHasUpdaters(cellMarks, config.autoRules, selCard, selPlayer)
          /\ lastEvent' = "markHas"
  /\ writesDone' = writesDone + 1
  /\ UNCHANGED <<config, setupState, settingsOpen, cellMarks, shownToState, selectedCell,
                 selectedOwnedCard, showConfirmDialog, probe, showValidationDialog,
                 draft, playerNames>>

\* MarkerBar handleNotClick while the handler runs: the updaters are queued
DispatchNotClick ==
  /\ pendingUpdates = << >>
  /\ sheetActive
  /\ selectedCell # NoCell
  /\ writesDone < MaxWrites
  /\ IF currentMark.primary = "not"
     THEN /\ pendingUpdates' = clearMarkUpdaters(selCard, selPlayer)
          /\ lastEvent' = "clearMark"
     ELSE /\ \E order \in Orderings(currentMark.numbers) :
               pendingUpdates' = markNotUpdaters(cellMarks, config.autoRules,
                                                 selCard, selPlayer, order)
          /\ lastEvent' = "markNot"
  /\ writesDone' = writesDone + 1
  /\ UNCHANGED <<config, setupState, settingsOpen, cellMarks, shownToState, selectedCell,
                 selectedOwnedCard, showConfirmDialog, probe, showValidationDialog,
                 draft, playerNames>>

\* setShowConfirmDialog(false) of handleConfirmed
ShowConfirmDialogUpdater == [state |-> "showConfirmDialog"]

\* setSetupState((prev) => ...) of confirmPhase
SetupStateUpdater(phase, selectedCards, handSize) ==
  [state |-> "setupState", phase |-> phase, selectedCards |-> selectedCards,
   handSize |-> handSize]

\* the setState calls of handleConfirmed with confirmPhase, in order
confirmedUpdaters(prev, phase, handSize) ==
  <<ShowConfirmDialogUpdater, SetupStateUpdater(phase, prev.currentSelection, handSize)>>
  \o batchUpdaters(IF confirmPhaseCardType(phase) # "none"
                   THEN applyMarksForCards(prev.currentSelection,
                                           confirmPhaseCardType(phase), prev.publicCards)
                   ELSE << >>)

\* React processing the queued setupState updaters in order
RECURSIVE processSetupStateUpdaters(_, _)
processSetupStateUpdaters(prev, queue) ==
  IF queue = << >> THEN prev
  ELSE processSetupStateUpdaters(
         IF Head(queue).state = "setupState"
         THEN confirmPhaseState(prev, Head(queue).phase, Head(queue).selectedCards,
                                Head(queue).handSize)
         ELSE prev,
         Tail(queue))

\* ConfirmDialog onConfirm while the handler runs: the updaters are queued
DispatchConfirmed ==
  /\ pendingUpdates = << >>
  /\ showConfirmDialog
  /\ pendingUpdates' = confirmedUpdaters(setupState, effectivePhase, config.handSize)
  /\ lastEvent' = "confirmed"
  /\ UNCHANGED <<config, setupState, settingsOpen, cellMarks, shownToState, selectedCell,
                 selectedOwnedCard, showConfirmDialog, writesDone, probe, showValidationDialog,
                 draft, playerNames>>

\* the handler has returned: React processes the queue and renders
CommitUpdates ==
  /\ pendingUpdates # << >>
  /\ cellMarks' = processCellMarksUpdaters(cellMarks, pendingUpdates)
  /\ setupState' = processSetupStateUpdaters(setupState, pendingUpdates)
  /\ selectedCell' = IF \E i \in 1..Len(pendingUpdates) : pendingUpdates[i].state = "selectedCell"
                     THEN NoCell ELSE selectedCell
  /\ showConfirmDialog' =
       IF \E i \in 1..Len(pendingUpdates) : pendingUpdates[i].state = "showConfirmDialog"
       THEN FALSE ELSE showConfirmDialog
  /\ pendingUpdates' = << >>
  /\ UNCHANGED <<config, settingsOpen, shownToState, selectedOwnedCard,
                 lastEvent, writesDone, probe, showValidationDialog,
                 draft, playerNames>>

\* a game from its start, or the marker bar in the middle of a game
InitCommit == Init \/ InitPlay

NextCommit ==
  \/ /\ pendingUpdates = << >>
     /\ \E cardId \in Cards, playerId \in 1..MaxClickPlayer : HandleCellClick(cardId, playerId)
  \/ /\ pendingUpdates = << >>
     /\ HandleCloseMarkerBar
  \/ /\ pendingUpdates = << >>
     /\ \E cardId \in Cards : HandleCardSelection(cardId)
  \/ /\ pendingUpdates = << >>
     /\ HandleConfirmClick
  \/ /\ pendingUpdates = << >>
     /\ HandleValidationClose
  \/ /\ pendingUpdates = << >>
     /\ HandleConfirmCancel
  \/ DispatchHasClick
  \/ DispatchNotClick
  \/ DispatchConfirmed
  \/ CommitUpdates

SpecCommit == InitCommit /\ [][NextCommit]_vars

----------------------------------------------------------------------------
(* The grid store driven through the interface that useCellMarks returns,  *)
(* from an empty store.  probe records the calls of the mark functions     *)
(* that the last operation made: the mark (or the arguments) it was given, *)
(* its argument and the mark it returned.                                  *)

MaxStoreOps == 2       \* store operations in one run
MaxStorePlayer == 2    \* the store is driven in columns 1..MaxStorePlayer
MaxBatch == 2          \* length of the update list of one batch write

StoreCells == Cards \X (1..MaxStorePlayer)

Call(from, arg, to) == [from |-> from, arg |-> arg, to |-> to]

\* the marks that the sheet hands to a batch write without reading the grid
BatchMarks == {EMPTY_MARK, createMark("not", {}, {}), createMark("has", {}, {})}

BatchUpdates ==
  UNION {[1..n -> {Update(cell[1], cell[2], mark) : cell \in StoreCells, mark \in BatchMarks}]
           : n \in 0..MaxBatch}

InitStore ==
  /\ config = [handSize |-> 0, publicCount |-> 0,
               autoRules |-> [r \in AutoRuleIds |-> FALSE]]
  /\ setupState = createInitialSetup(config.publicCount)
  /\ settingsOpen = FALSE
  /\ cellMarks = EmptyMap
  /\ shownToState = EmptyShownTo
  /\ selectedCell = NoCell
  /\ selectedOwnedCard = NoCard
  /\ showConfirmDialog = FALSE
  /\ lastEvent = "init"
  /\ writesDone = 0
  /\ probe = NoProbe
  /\ pendingUpdates = << >>
  /\ showValidationDialog = FALSE
  /\ draft = DEFAULT_CONFIG
  /\ playerNames = initialPlayerNames(DEFAULT_CONFIG)

StoreStep(event, marks, op, calls) ==
  /\ writesDone < MaxStoreOps
  /\ cellMarks' = marks
  /\ probe' = [op |-> op, calls |-> calls]
  /\ lastEvent' = event
  /\ writesDone' = writesDone + 1
  /\ UNCHANGED <<config, setupState, settingsOpen, shownToState, selectedCell,
                 selectedOwnedCard, showConfirmDialog, pendingUpdates, showValidationDialog,
                 draft, playerNames>>

\* setCellMark with a mark made by createMark
StoreSetCellMark(cardId, playerId, primary, numbers, barColors) ==
  LET mark == createMark(primary, numbers, barColors)
  IN StoreStep("setCellMark", setCellMark(cellMarks, cardId, playerId, mark), "createMark",
               {Call([primary |-> primary, numbers |-> numbers, barColors |-> barColors],
                     primary, mark)})

StoreSetPrimary(cardId, playerId, primary) ==
  LET current == getCellMark(cellMarks, cardId, playerId)
      newMark == withPrimary(current, primary)
  IN StoreStep("setPrimary", setCellMark(cellMarks, cardId, playerId, newMark), "withPrimary",
               {Call(current, primary, newMark)})

StoreToggleNumber(cardId, playerId, num) ==
  LET current == getCellMark(cellMarks, cardId, playerId)
      newMark == withToggledNumber(current, num)
  IN StoreStep("toggleNumber", setCellMark(cellMarks, cardId, playerId, newMark),
               "withToggledNumber", {Call(current, num, newMark)})

StoreToggleBarColor(cardId, playerId, color) ==
  LET current == getCellMark(cellMarks, cardId, playerId)
      newMark == withToggledBarColor(current, color)
  IN StoreStep("toggleBarColor", setCellMark(cellMarks, cardId, playerId, newMark),
               "withToggledBarColor", {Call(current, color, newMark)})

StoreClearNumbersFromCell(cardId, playerId) ==
  LET current == getCellMark(cellMarks, cardId, playerId)
      newMark == withoutAllNumbers(current)
  IN IF Cardinality(current.numbers) = 0
     THEN StoreStep("clearNumbersFromCell", cellMarks, "withoutAllNumbers", {})
     ELSE StoreStep("clearNumbersFromCell", setCellMark(cellMarks, cardId, playerId, newMark),
                    "withoutAllNumbers", {Call(current, 0, newMark)})

StoreRemoveNumberFromColumn(playerId, num) ==
  StoreStep("removeNumberFromColumn", removeNumberFromColumn(cellMarks, playerId, num),
            "withoutNumber",
            {Call(cellMarks[k], num, withoutNumber(cellMarks[k], num)) :
               k \in {x \in DOMAIN cellMarks : parseKey(x).playerId = playerId
                                               /\ num \in cellMarks[x].numbers}})

StoreClearMark(cardId, playerId) ==
  StoreStep("clearMark", handleClearMark(cellMarks, cardId, playerId), "clearMark", {})

StoreBatchSetMarks(updates) ==
  StoreStep("batchSetMarks", batchSetMarks(cellMarks, updates), "batchSetMarks", {})

StoreResetAll == StoreStep("resetAll", resetAll, "resetAll", {})

NextStore ==
  \/ \E cell \in StoreCells, primary \in PrimaryMarks,
        numbers \in SUBSET NUMBER_MARKER_KEYS, barColors \in SUBSET BAR_COLOR_KEYS :
       StoreSetCellMark(cell[1], cell[2], primary, numbers, barColors)
  \/ \E cell \in StoreCells, primary \in PrimaryMarks : StoreSetPrimary(cell[1], cell[2], primary)
  \/ \E cell \in StoreCells, num \in NUMBER_MARKER_KEYS : StoreToggleNumber(cell[1], cell[2], num)
  \/ \E cell \in StoreCells, color \in BAR_COLOR_KEYS : StoreToggleBarColor(cell[1], cell[2], color)
  \/ \E cell \in StoreCells : StoreClearNumbersFromCell(cell[1], cell[2])
  \/ \E playerId \in 1..MaxStorePlayer, num \in NUMBER_MARKER_KEYS :
       StoreRemoveNumberFromColumn(playerId, num)
  \/ \E cell \in StoreCells : StoreClearMark(cell[1], cell[2])
  \/ \E updates \in BatchUpdates : StoreBatchSetMarks(updates)
  \/ StoreResetAll

SpecStore == InitStore /\ [][NextStore]_vars

----------------------------------------------------------------------------
(* The shown-to tracker driven through the interface that useCardOwnership *)
(* returns, from an empty map.  probe records the call of the last         *)
(* operation: the map it was applied to, its arguments and the map it      *)
(* returned.                                                               *)

InitOwnership ==
  /\ config = [handSize |-> 0, publicCount |-> 0,
               autoRules |-> [r \in AutoRuleIds |-> FALSE]]
  /\ setupState = createInitialSetup(config.publicCount)
  /\ settingsOpen = FALSE
  /\ cellMarks = EmptyMap
  /\ shownToState = EmptyShownTo
  /\ selectedCell = NoCell
  /\ selectedOwnedCard = NoCard
  /\ showConfirmDialog = FALSE
  /\ lastEvent = "init"
  /\ writesDone = 0
  /\ probe = NoProbe
  /\ pendingUpdates = << >>
  /\ showValidationDialog = FALSE
  /\ draft = DEFAULT_CONFIG
  /\ playerNames = initialPlayerNames(DEFAULT_CONFIG)

OwnershipStep(event, state, arg) ==
  /\ shownToState' = state
  /\ probe' = [op |-> event, calls |-> {Call(shownToState, arg, state)}]
  /\ lastEvent' = event
  /\ UNCHANGED <<config, setupState, settingsOpen, cellMarks, selectedCell,
                 selectedOwnedCard, showConfirmDialog, writesDone, pendingUpdates, showValidationDialog,
                 draft, playerNames>>

OwnershipToggleShownTo(cardId, playerId) ==
  OwnershipStep("toggleShownTo", toggleShownTo(shownToState, cardId, playerId),
                <<cardId, playerId>>)

OwnershipClearCardShownTo(cardId) ==
  OwnershipStep("clearCardShownTo", clearShownTo(shownToState, cardId), <<cardId>>)

OwnershipResetAll == OwnershipStep("resetAll", EmptyShownTo, << >>)

NextOwnership ==
  \/ \E cardId \in Cards, playerId \in 2..MaxShownPlayer :
       OwnershipToggleShownTo(cardId, playerId)
  \/ \E cardId \in Cards : OwnershipClearCardShownTo(cardId)
  \/ OwnershipResetAll

SpecOwnership == InitOwnership /\ [][NextOwnership]_vars

----------------------------------------------------------------------------
(* The constraint resolver applied to dependency tables of every shape,    *)
(* the shipped one among them.  probe records one call: the table, the     *)
(* constraint, the rules, the result over that table and the result of     *)
(* isConstraintRequired itself.                                            *)

\* the rule lists of up to MaxDeps entries
RuleLists == UNION {[1..n -> AutoRuleIds] : n \in 0..MaxDeps}

DependencyTables == [ConstraintIds -> RuleLists]

InitResolver ==
  /\ config = [handSize |-> 0, publicCount |-> 0,
               autoRules |-> [r \in AutoRuleIds |-> FALSE]]
  /\ setupState = createInitialSetup(config.publicCount)
  /\ settingsOpen = FALSE
  /\ cellMarks = EmptyMap
  /\ shownToState = EmptyShownTo
  /\ selectedCell = NoCell
  /\ selectedOwnedCard = NoCard
  /\ showConfirmDialog = FALSE
  /\ lastEvent = "init"
  /\ writesDone = 0
  /\ probe = NoProbe
  /\ pendingUpdates = << >>
  /\ showValidationDialog = FALSE
  /\ draft = DEFAULT_CONFIG
  /\ playerNames = initialPlayerNames(DEFAULT_CONFIG)

ResolveConstraint(dependencies, constraintId, autoRules) ==
  /\ probe' = [op |-> "isConstraintRequired",
               calls |-> {[dependencies |-> dependencies,
                           constraintId |-> constraintId,
                           autoRules |-> autoRules,
                           result |-> isConstraintRequiredIn(dependencies, constraintId, autoRules),
                           shipped |-> isConstraintRequired(constraintId, autoRules)]}]
  /\ lastEvent' = "isConstraintRequired"
  /\ UNCHANGED <<config, setupState, settingsOpen, cellMarks, shownToState, selectedCell,
                 selectedOwnedCard, showConfirmDialog, writesDone, pendingUpdates, showValidationDialog,
                 draft, playerNames>>

NextResolver ==
  \E dependencies \in DependencyTables, constraintId \in ConstraintIds,
     autoRules \in AutoRulesConfigs :
    ResolveConstraint(dependencies, constraintId, autoRules)

SpecResolver == InitResolver /\ [][NextResolver]_vars

----------------------------------------------------------------------------
(* The settings modal while it is open: the draft of the configuration and *)
(* the player names, edited by the handlers of the form.  Every render     *)
(* derives the game parameters from the draft.                             *)

MaxNamedPlayer == 3   \* names are typed for players 1..MaxNamedPlayer

\* the names typed into a name field
TypedNames == {<<"A", "n", "n">>}

\* the configurations the modal is opened on
ActiveConfigs ==
  {[DEFAULT_CONFIG EXCEPT !.players = [i \in 1..k |-> createDefaultPlayer(i)]]
     : k \in MIN_PLAYERS..MAX_PLAYERS}

enabledPlayerIds == idsOf(draft.players)
totalCards == Cardinality(getCards(draft.themeId))
playerCount == Len(draft.players)
derivedGameParams == deriveGameParams(totalCards, playerCount)

InitSettings ==
  /\ config = [handSize |-> 0, publicCount |-> 0,
               autoRules |-> [r \in AutoRuleIds |-> FALSE]]
  /\ setupState = createInitialSetup(config.publicCount)
  /\ settingsOpen = TRUE
  /\ cellMarks = EmptyMap
  /\ shownToState = EmptyShownTo
  /\ selectedCell = NoCell
  /\ selectedOwnedCard = NoCard
  /\ showConfirmDialog = FALSE
  /\ lastEvent = "init"
  /\ writesDone = 0
  /\ probe = NoProbe
  /\ pendingUpdates = << >>
  /\ showValidationDialog = FALSE
  /\ draft \in ActiveConfigs
  /\ playerNames = initialPlayerNames(draft)

SettingsStep(event, nextDraft, nextNames, arg) ==
  /\ draft' = nextDraft
  /\ playerNames' = nextNames
  /\ probe' = [op |-> event, calls |-> {Call(enabledPlayerIds, arg, idsOf(nextDraft.players))}]
  /\ lastEvent' = event
  /\ UNCHANGED <<config, setupState, settingsOpen, cellMarks, shownToState, selectedCell,
                 selectedOwnedCard, showConfirmDialog, writesDone, pendingUpdates,
                 showValidationDialog>>

\* a call of togglePlayer, from the checkbox or not
TogglePlayer(id) ==
  SettingsStep("togglePlayer", togglePlayer(draft, playerNames, id), playerNames, id)

\* the checkbox of a player, when it is shown and not disabled
PlayerCheckboxChange(id) ==
  /\ id > 2
  /\ ~isPlayerCheckboxDisabled(enabledPlayerIds, id)
  /\ SettingsStep("playerCheckbox", togglePlayer(draft, playerNames, id), playerNames, id)

SetPlayerName(id, name) ==
  SettingsStep("setPlayerName",
               IF id \in enabledPlayerIds
               THEN [draft EXCEPT !.players =
                       [i \in 1..Len(draft.players) |->
                          IF draft.players[i].id = id
                          THEN [draft.players[i] EXCEPT !.name = name]
                          ELSE draft.players[i]]]
               ELSE draft,
               [playerNames EXCEPT ![id] = name], id)

ToggleAutoRule(ruleId) ==
  SettingsStep("toggleAutoRule",
               [draft EXCEPT !.autoRules[ruleId] = ~draft.autoRules[ruleId]],
               playerNames, ruleId)

SetThemeId(themeId) ==
  SettingsStep("setField", [draft EXCEPT !.themeId = themeId], playerNames, themeId)

NextSettings ==
  \/ \E id \in ALL_PLAYER_IDS : TogglePlayer(id)
  \/ \E id \in ALL_PLAYER_IDS : PlayerCheckboxChange(id)
  \/ \E id \in 1..MaxNamedPlayer :
       \E name \in TypedNames \cup {createDefaultPlayer(id).name} : SetPlayerName(id, name)
  \/ \E ruleId \in AutoRuleIds : ToggleAutoRule(ruleId)
  \/ \E themeId \in THEMES : SetThemeId(themeId)

SpecSettings == InitSettings /\ [][NextSettings]_vars

----------------------------------------------------------------------------
(* Properties *)

rowIsAllNot(marks, cardId) ==
  \A playerId \in Players : getCellMark(marks, cardId, playerId).primary = "not"

\* C1 - Row elimination: with rowElimination enabled, when a Mark-as-HAS
\* event on the selected cell (C, p) completes, the cell reads has and every
\* other column of row C whose primary was empty or bars before the event
\* reads not.
C1_RowElimination ==
  [][(lastEvent' = "markHas" /\ selectedCell # NoCell /\ config.autoRules.rowElimination)
       => /\ getCellMark(cellMarks', selCard, selPlayer).primary = "has"
          /\ \A playerId \in Players \ {selPlayer} :
               getCellMark(cellMarks, selCard, playerId).primary \in {"empty", "bars"}
                 => getCellMark(cellMarks', selCard, playerId).primary = "not"]_vars

\* a has in column 2 with row elimination on: every other column of the row,
\* column 1 among them, now reads a plain not
C1_Witness ==
  /\ lastEvent = "markHas"
  /\ config.autoRules.rowElimination
  /\ \E cardId \in Cards :
       /\ getCellMark(cellMarks, cardId, 2).primary = "has"
       /\ \A playerId \in Players \ {2} :
            getCellMark(cellMarks, cardId, playerId) = createMark("not", {}, {})

\* C2 - Settled-cell protection: with rowElimination enabled, a Mark-as-HAS
\* event on (C, p) leaves every other cell of row C whose primary was has or
\* not before the event exactly as it was (primary, numbers and bar colours).
C2_SettledCellProtection ==
  [][(lastEvent' = "markHas" /\ selectedCell # NoCell /\ config.autoRules.rowElimination)
       => \A playerId \in Players \ {selPlayer} :
            getCellMark(cellMarks, selCard, playerId).primary \in {"has", "not"}
              => getCellMark(cellMarks', selCard, playerId)
                   = getCellMark(cellMarks, selCard, playerId)]_vars

\* a has in column 2 next to an older has in column 3 that the elimination,
\* which reached column 1, has left alone
C2_Witness ==
  /\ lastEvent = "markHas"
  /\ config.autoRules.rowElimination
  /\ \E cardId \in Cards :
       /\ getCellMark(cellMarks, cardId, 2).primary = "has"
       /\ getCellMark(cellMarks, cardId, 3).primary = "has"
       /\ getCellMark(cellMarks, cardId, 1).primary = "not"

\* the cards other than cardId and target that carry num in column playerId
otherCarriers(marks, playerId, num, cardId, target) ==
  findNumberInColumn(marks, playerId, num) \ {cardId, target}

\* C3 - Last-maybe deduction, the resolving step: with lastMaybeDeduction
\* enabled, when the selected cell B (primary empty or bars, carrying number
\* N) is marked not, and the only other carriers of N in the column are a
\* cell C with primary empty or bars and at least one cell already marked
\* not, the same event sets C's primary to has and keeps C's numbers.
C3_LastMaybeResolves ==
  [][\A num \in NUMBER_MARKER_KEYS, target \in Cards :
       (/\ lastEvent' = "markNot"
        /\ selectedCell # NoCell
        /\ config.autoRules.lastMaybeDeduction
        /\ target # selCard
        /\ num \in currentMark.numbers
        /\ currentMark.primary \in {"empty", "bars"}
        /\ num \in getCellMark(cellMarks, target, selPlayer).numbers
        /\ getCellMark(cellMarks, target, selPlayer).primary \in {"empty", "bars"}
        /\ otherCarriers(cellMarks, selPlayer, num, selCard, target) # {}
        /\ \A cardId \in otherCarriers(cellMarks, selPlayer, num, selCard, target) :
             getCellMark(cellMarks, cardId, selPlayer).primary = "not")
       => /\ getCellMark(cellMarks', target, selPlayer).primary = "has"
          /\ getCellMark(cellMarks', target, selPlayer).numbers
               = getCellMark(cellMarks, target, selPlayer).numbers]_vars

\* C4 - Setup owner initialization: confirming the owner cards sets, for
\* each of them, player 1's cell to a plain has and the cells of players
\* 2..6 to a plain not, sets player 1's cell to a plain not for every card
\* that is neither an owner card nor a confirmed public card, and leaves the
\* cells of players 2..6 in every other row unchanged.
C4_OwnerInitialization ==
  [][(lastEvent' = "confirmed" /\ effectivePhase = "selectOwner")
       => LET owned == Range(setupState.currentSelection)
              public == Range(setupState.publicCards)
          IN /\ \A cardId \in owned :
                  /\ getCellMark(cellMarks', cardId, 1) = createMark("has", {}, {})
                  /\ \A playerId \in 2..PLAYER_COL_COUNT :
                       getCellMark(cellMarks', cardId, playerId) = createMark("not", {}, {})
             /\ \A cardId \in Cards \ (owned \cup public) :
                  getCellMark(cellMarks', cardId, 1) = createMark("not", {}, {})
             /\ \A cardId \in Cards \ owned, playerId \in 2..PLAYER_COL_COUNT :
                  getCellMark(cellMarks', cardId, playerId)
                    = getCellMark(cellMarks, cardId, playerId)]_vars

\* the owner cards have just been confirmed next to a confirmed public card:
\* an owner row reads has, not, ..., not and a free row reads not in column 1
C4_Witness ==
  /\ lastEvent = "confirmed"
  /\ setupState.ownerCards # << >>
  /\ setupState.publicCards # << >>
  /\ \E cardId \in Range(setupState.ownerCards) :
       /\ getCellMark(cellMarks, cardId, 1).primary = "has"
       /\ \A playerId \in 2..PLAYER_COL_COUNT :
            getCellMark(cellMarks, cardId, playerId).primary = "not"
  /\ \E cardId \in Cards \ (Range(setupState.ownerCards) \cup Range(setupState.publicCards)) :
       /\ getCellMark(cellMarks, cardId, 1).primary = "not"
       /\ getCellMark(cellMarks, cardId, 2).primary = "empty"

\* C5 - Setup public initialization: confirming the public cards sets the
\* mark of each of them in all six columns to a plain not (no numbers, no
\* bar colours) whatever the cell held before, and changes no cell of any
\* other row.
C5_PublicInitialization ==
  [][(lastEvent' = "confirmed" /\ effectivePhase = "selectPublic")
       => LET public == Range(setupState.currentSelection)
          IN /\ \A cardId \in public, playerId \in Players :
                  getCellMark(cellMarks', cardId, playerId) = createMark("not", {}, {})
             /\ \A cardId \in Cards \ public, playerId \in Players :
                  getCellMark(cellMarks', cardId, playerId)
                    = getCellMark(cellMarks, cardId, playerId)]_vars

\* a public card has just been confirmed while the marker bar, left open by
\* a game reset, was on a cell of its row: all six cells read a plain not
C5_Witness ==
  /\ lastEvent = "confirmed"
  /\ setupState.publicCards # << >>
  /\ setupState.ownerCards = << >>
  /\ selectedCell # NoCell
  /\ selCard \in Range(setupState.publicCards)
  /\ \A cardId \in Range(setupState.publicCards), playerId \in Players :
       getCellMark(cellMarks, cardId, playerId) = createMark("not", {}, {})

\* C6 - Murder-item predicate: in every grid state and under every rules
\* record, isMurderItem(card) is true exactly when the card is neither a
\* confirmed public card nor a confirmed owner card and all six columns of
\* its row read not; no rule flag switches it.
C6_MurderItemIsDerived ==
  \A cardId \in Cards :
    isMurderItem(cellMarks, config.autoRules, cardId)
      <=> (~isRowLocked(cardId) /\ rowIsAllNot(cellMarks, cardId))

\* C7 - Sparse-store invariant: the store never holds the canonical empty
\* mark (point write, batch write and column-wide number removal delete the
\* entry instead), and a point read of an absent cell returns it.
C7_SparseStore ==
  /\ \A key \in DOMAIN cellMarks : ~isEmptyMark(cellMarks[key])
  /\ \A cardId \in Cards, playerId \in Players :
       makeKey(cardId, playerId) \notin DOMAIN cellMarks
         => getCellMark(cellMarks, cardId, playerId) = EMPTY_MARK

\* a column-wide removal has just taken the last number off a cell with an
\* empty primary, and that entry is gone from the store
C7_Witness ==
  /\ lastEvent = "removeNumberFromColumn"
  /\ \E call \in probe.calls : isEmptyMark(call.to) /\ ~isEmptyMark(call.from)
  /\ DOMAIN cellMarks = {}

isNormalized(mark) == mark.primary # "bars" => mark.barColors = {}

MarkFunctions ==
  {"createMark", "withPrimary", "withToggledNumber", "withToggledBarColor",
   "withoutNumber", "withoutAllNumbers"}

\* C8 - Bar-colour normalization: every mark returned by createMark (for any
\* arguments) and by withPrimary, withToggledNumber, withToggledBarColor,
\* withoutNumber and withoutAllNumbers (for a normalized mark) has no bar
\* colours unless its primary is bars, and so has every mark in the store;
\* withPrimary keeps the numbers, keeps the bar colours of a bars mark that
\* stays bars and clears them when the new primary is not bars.
C8_BarColorNormalization ==
  /\ \A key \in DOMAIN cellMarks : isNormalized(cellMarks[key])
  /\ probe.op \in MarkFunctions =>
       \A call \in probe.calls :
         (probe.op = "createMark" \/ isNormalized(call.from)) => isNormalized(call.to)
  /\ probe.op = "withPrimary" =>
       \A call \in probe.calls :
         /\ call.to.numbers = call.from.numbers
         /\ call.arg # "bars" => call.to.barColors = {}
         /\ call.arg = "bars" => call.to.barColors = call.from.barColors

\* setPrimary has just turned a bars mark with numbers and colours into a
\* not: the numbers are kept and the colours are gone, in the store too
C8_Witness ==
  /\ probe.op = "withPrimary"
  /\ \E call \in probe.calls :
       /\ call.from.primary = "bars"
       /\ call.from.barColors # {}
       /\ call.from.numbers # {}
       /\ call.arg = "not"
       /\ call.to.barColors = {}
       /\ \E key \in DOMAIN cellMarks : cellMarks[key] = call.to

\* C9 - Constraint resolver: the result is true exactly when the dependent-
\* rule list of the constraint is non-empty and at least one listed rule is
\* enabled; over the shipped table it is false for both constraints under
\* every combination of enabled rules.
C9_ConstraintResolver ==
  probe.op = "isConstraintRequired" =>
    \A call \in probe.calls :
      LET dependentRules == call.dependencies[call.constraintId]
      IN /\ call.result <=> (/\ Len(dependentRules) > 0
                             /\ \E i \in 1..Len(dependentRules) :
                                  call.autoRules[dependentRules[i]])
         /\ call.dependencies = CONSTRAINT_DEPENDENCIES => ~call.result
         /\ ~call.shipped

\* a call over a table whose list for the constraint is full, with its first
\* rule disabled and a later one enabled, returned true while the shipped
\* table returned false
C9_Witness ==
  /\ probe.op = "isConstraintRequired"
  /\ \E call \in probe.calls :
       /\ Len(call.dependencies[call.constraintId]) = MaxDeps
       /\ ~call.autoRules[call.dependencies[call.constraintId][1]]
       /\ call.result
       /\ ~call.shipped

\* C10 - Inert constraints: under every rules record the validation allows
\* the toggle of every number key on the selected cell, whatever it holds
\* (has and not included), and a number toggle changes the selected cell
\* only: its number set gains or loses that one key, its primary and bar
\* colours stay, and every other cell of the grid is unchanged.
C10_InertConstraints ==
  [][/\ selectedCell # NoCell =>
          \A num \in NUMBER_MARKER_KEYS : canToggleNumber(currentMark, config.autoRules, num)
     /\ (lastEvent' = "toggleNumber" /\ selectedCell # NoCell) =>
          /\ \A cardId \in Cards, playerId \in Players :
               <<cardId, playerId>> # selectedCell =>
                 getCellMark(cellMarks', cardId, playerId)
                   = getCellMark(cellMarks, cardId, playerId)
          /\ \E num \in NUMBER_MARKER_KEYS :
               /\ getCellMark(cellMarks', selCard, selPlayer).numbers
                    = IF num \in currentMark.numbers
                      THEN currentMark.numbers \ {num}
                      ELSE currentMark.numbers \cup {num}
               /\ getCellMark(cellMarks', selCard, selPlayer).primary = currentMark.primary
               /\ getCellMark(cellMarks', selCard, selPlayer).barColors
                    = currentMark.barColors]_vars

\* a number has just been taken off the selected cell while another cell of
\* the column, already marked not, still carries it
C10_Witness ==
  /\ lastEvent = "toggleNumber"
  /\ selectedCell # NoCell
  /\ seedNumber \notin currentMark.numbers
  /\ \E cardId \in Cards \ {selCard} :
       /\ seedNumber \in getCellMark(cellMarks, cardId, selPlayer).numbers
       /\ getCellMark(cellMarks, cardId, selPlayer).primary = "not"
  /\ currentMark.primary = "not"

\* the positions <<updater, update>> of the queue that write cell (cardId, playerId)
writesOf(queue, cardId, playerId) ==
  {pos \in UNION {{<<i, j>> : j \in 1..Len(queue[i].updates)}
                    : i \in {x \in 1..Len(queue) : queue[x].state = "cellMarks"}} :
     /\ queue[pos[1]].updates[pos[2]].cardId = cardId
     /\ queue[pos[1]].updates[pos[2]].playerId = playerId}

\* pos is the last position of W in queue order
isLastOf(pos, W) ==
  \A other \in W : other[1] < pos[1] \/ (other[1] = pos[1] /\ other[2] <= pos[2])

\* C11 - Cascade atomicity: the grid that readers see changes only by a
\* commit that takes the whole queue of the event with it: afterwards every
\* cell written by the event (trigger write and cascade batches alike) holds
\* the last mark the event wrote to it and every other cell is unchanged;
\* and when a Mark-as-HAS event under rowElimination shows the trigger cell
\* as has, no other cell of the row is still empty or bars.
C11_CascadeAtomicity ==
  [][cellMarks' # cellMarks
       => /\ pendingUpdates # << >> /\ pendingUpdates' = << >>
          /\ \A cardId \in Cards, playerId \in Players :
               LET W == writesOf(pendingUpdates, cardId, playerId)
               IN IF W = {}
                  THEN getCellMark(cellMarks', cardId, playerId)
                         = getCellMark(cellMarks, cardId, playerId)
                  ELSE \E pos \in W :
                         /\ isLastOf(pos, W)
                         /\ getCellMark(cellMarks', cardId, playerId)
                              = pendingUpdates[pos[1]].updates[pos[2]].mark
          /\ (lastEvent = "markHas" /\ config.autoRules.rowElimination)
               => \A playerId \in Players \ {selPlayer} :
                    getCellMark(cellMarks', selCard, playerId).primary \notin {"empty", "bars"}]_vars

\* a committed Mark-as-NOT event whose queue held the trigger write, a
\* deduction write and a row-elimination batch: the column shows the has
\* that the deduction wrote and its row reads not everywhere else
C11_Witness ==
  /\ lastEvent = "markNot"
  /\ pendingUpdates = << >>
  /\ config.autoRules.rowElimination /\ config.autoRules.lastMaybeDeduction
  /\ \E cardId \in Cards :
       /\ getCellMark(cellMarks, cardId, MaxClickPlayer).primary = "has"
       /\ seedNumber \in getCellMark(cellMarks, cardId, MaxClickPlayer).numbers
       /\ \A playerId \in Players \ {MaxClickPlayer} :
            getCellMark(cellMarks, cardId, playerId).primary = "not"

\* the cellMarks updaters of the queue
cellMarksUpdaters(queue) == {i \in 1..Len(queue) : queue[i].state = "cellMarks"}

\* the single grid writes of the queue, as positions <<updater, update>>
gridWrites(queue) ==
  UNION {{<<i, j>> : j \in 1..Len(queue[i].updates)} : i \in cellMarksUpdaters(queue)}

\* the updaters after the trigger write that write a has
hasResolutions(queue) ==
  {i \in cellMarksUpdaters(queue) :
     i > 1 /\ \E j \in 1..Len(queue[i].updates) : queue[i].updates[j].mark.primary = "has"}

\* C12 - Cascade termination and bound: the handler of a Mark-as-HAS,
\* Mark-as-NOT or setup-confirmation event returns with a finite queue of
\* grid writes (at most the trigger write and one row for each number of the
\* marked cell; at most one row for every confirmed card and one cell for
\* every card of the catalog); a Mark-as-NOT event queues at most one has
\* resolution for each number the marked cell carries, each a single write
\* in the marked column followed by at most one row-elimination pass over
\* the resolved row, and nothing else; a Mark-as-HAS event queues no has
\* resolution and at most one pass.
C12_CascadeBound ==
  /\ (lastEvent = "confirmed" /\ pendingUpdates # << >>)
       => Cardinality(gridWrites(pendingUpdates))
            <= Len(setupState.currentSelection) * PLAYER_COL_COUNT + NumCards
  /\ (lastEvent = "markHas" /\ pendingUpdates # << >>)
       => /\ Cardinality(gridWrites(pendingUpdates)) <= PLAYER_COL_COUNT
          /\ hasResolutions(pendingUpdates) = {}
          /\ Cardinality(cellMarksUpdaters(pendingUpdates)) <= 2
  /\ (lastEvent = "markNot" /\ pendingUpdates # << >>)
       => LET resolutions == hasResolutions(pendingUpdates)
              passes == cellMarksUpdaters(pendingUpdates) \ (resolutions \cup {1})
          IN /\ Cardinality(gridWrites(pendingUpdates))
                  <= 1 + Cardinality(currentMark.numbers) * PLAYER_COL_COUNT
             /\ Cardinality(resolutions) <= Cardinality(currentMark.numbers)
             /\ Cardinality(resolutions) <= 4
             /\ \A i \in resolutions :
                  /\ Len(pendingUpdates[i].updates) = 1
                  /\ pendingUpdates[i].updates[1].playerId = selPlayer
             /\ \A i \in passes :
                  /\ i - 1 \in resolutions
                  /\ \A j \in 1..Len(pendingUpdates[i].updates) :
                       /\ pendingUpdates[i].updates[j].mark.primary = "not"
                       /\ pendingUpdates[i].updates[j].cardId
                            = pendingUpdates[i - 1].updates[1].cardId

\* the handler of a Mark-as-NOT event on a cell carrying two numbers has
\* returned: two resolutions are queued, each followed by its pass
C12_Witness ==
  /\ lastEvent = "markNot"
  /\ Cardinality(currentMark.numbers) = 2
  /\ Cardinality(hasResolutions(pendingUpdates)) = 2
  /\ Cardinality(cellMarksUpdaters(pendingUpdates)) = 5

\* the grid at the point of the event where update j of updater i is about
\* to be applied
gridBefore(marks, queue, i, j) ==
  batchSetMarks(processCellMarksUpdaters(marks, SubSeq(queue, 1, i - 1)),
                SubSeq(queue[i].updates, 1, j - 1))

\* C13 - No reversal inside a cascade: in a Mark-as-HAS or Mark-as-NOT
\* event, every write after the user's own (row elimination, last-maybe
\* deduction) writes not or has, and a cell whose primary is has or not at
\* that point of the event, the cell just marked included, keeps that
\* primary.
C13_NoReversal ==
  (lastEvent \in {"markHas", "markNot"} /\ pendingUpdates # << >>)
    => \A pos \in gridWrites(pendingUpdates) :
         pos[1] > 1 =>
           LET update == pendingUpdates[pos[1]].updates[pos[2]]
               before == getCellMark(gridBefore(cellMarks, pendingUpdates, pos[1], pos[2]),
                                     update.cardId, update.playerId)
           IN /\ update.mark.primary \in {"not", "has"}
              /\ before.primary \in {"has", "not"} => update.mark.primary = before.primary

carriersWith(marks, playerId, num, primaries) ==
  {cardId \in Cards : /\ num \in getCellMark(marks, cardId, playerId).numbers
                      /\ getCellMark(marks, cardId, playerId).primary \in primaries}

\* C15 - Last-maybe has-guard: when a cell is marked not, a number N it
\* carries that some cell of the column already carries with primary has
\* gives rise to no has write: the event queues at most one has resolution
\* for each of the other numbers of the cell, and none at all when every
\* number of the cell is guarded in this way, however many carriers of N
\* with another primary remain.
C15_HasGuard ==
  (lastEvent = "markNot" /\ pendingUpdates # << >> /\ config.autoRules.lastMaybeDeduction)
    => Cardinality(hasResolutions(pendingUpdates))
         <= Cardinality({num \in currentMark.numbers :
                           carriersWith(cellMarks, selPlayer, num, {"has"}) = {}})

\* a cell carrying the number has been marked not while another cell of the
\* column carries it with has and exactly one more carries it on an empty
\* primary: the handler has returned without queueing a has write
C15_Witness ==
  /\ lastEvent = "markNot"
  /\ pendingUpdates # << >>
  /\ config.autoRules.lastMaybeDeduction
  /\ currentMark = createMark("empty", {seedNumber}, {})
  /\ carriersWith(cellMarks, selPlayer, seedNumber, {"has"}) # {}
  /\ Cardinality(carriersWith(cellMarks, selPlayer, seedNumber, {"empty", "bars"})
                   \ {selCard}) = 1
  /\ hasResolutions(pendingUpdates) = {}

\* C16 - Last-maybe with no candidate left: with lastMaybeDeduction enabled,
\* when the cell marked not is, for every number it carries, the only cell
\* of the column carrying that number with a primary other than not (all
\* other carriers are not already), the event sets no cell to has and the
\* marked cell ends the event with primary not.
C16_NoCandidateLeft ==
  [][(/\ lastEvent' = "markNot"
      /\ selectedCell # NoCell
      /\ config.autoRules.lastMaybeDeduction
      /\ currentMark.numbers # {}
      /\ \A num \in currentMark.numbers :
           carriersWith(cellMarks, selPlayer, num, {"empty", "bars", "has"}) = {selCard})
       => /\ getCellMark(cellMarks', selCard, selPlayer).primary = "not"
          /\ \A cardId \in Cards, playerId \in Players :
               getCellMark(cellMarks', cardId, playerId).primary = "has"
                 => getCellMark(cellMarks, cardId, playerId).primary = "has"]_vars

\* C17 - Deduction chains into row elimination: when a Mark-as-NOT event
\* resolves a cell (T, p) to has, then with rowElimination enabled every
\* other column of row T whose primary was empty or bars reads not after the
\* event and every other column that was has or not is as it was; with
\* rowElimination disabled every other column of row T is as it was.
C17_DeductionChains ==
  [][\A target \in Cards :
       (/\ lastEvent' = "markNot"
        /\ selectedCell # NoCell
        /\ getCellMark(cellMarks, target, selPlayer).primary # "has"
        /\ getCellMark(cellMarks', target, selPlayer).primary = "has")
       => \A playerId \in Players \ {selPlayer} :
            LET before == getCellMark(cellMarks, target, playerId)
                after == getCellMark(cellMarks', target, playerId)
            IN IF config.autoRules.rowElimination /\ before.primary \in {"empty", "bars"}
               THEN after.primary = "not"
               ELSE after = before]_vars

\* a Mark-as-NOT event in column 2 has resolved a cell to has and the row
\* elimination that followed has turned the cell of column 3, which carried
\* every number, and the untouched cell of column 1 into not
C17_Witness ==
  /\ lastEvent = "markNot"
  /\ config.autoRules.rowElimination
  /\ \E cardId \in Cards :
       /\ getCellMark(cellMarks, cardId, 2).primary = "has"
       /\ getCellMark(cellMarks, cardId, 3) = createMark("not", NUMBER_MARKER_KEYS, {})
       /\ getCellMark(cellMarks, cardId, 1) = createMark("not", {}, {})

\* C18 - A Mark-as-HAS event never produces a further has: after the event
\* no cell other than the marked one reads has unless it read has before,
\* whatever the rules record, also when the row elimination has turned not a
\* cell carrying a number that exactly one other cell of its column still
\* carries as a candidate.
C18_HasStartsNoDeduction ==
  [][(lastEvent' = "markHas" /\ selectedCell # NoCell)
       => \A cardId \in Cards, playerId \in Players :
            (/\ <<cardId, playerId>> # selectedCell
             /\ getCellMark(cellMarks', cardId, playerId).primary = "has")
              => getCellMark(cellMarks, cardId, playerId).primary = "has"]_vars

\* both rules on, a has in column 2: the elimination has turned the cell of
\* column 3 into a not that carries every number, and the one other carrier
\* of the seed number in column 3, the single candidate left, is still empty
C18_Witness ==
  /\ lastEvent = "markHas"
  /\ config.autoRules.rowElimination /\ config.autoRules.lastMaybeDeduction
  /\ \E cardId \in Cards :
       /\ getCellMark(cellMarks, cardId, 2).primary = "has"
       /\ getCellMark(cellMarks, cardId, 3) = createMark("not", NUMBER_MARKER_KEYS, {})
       /\ carriersWith(cellMarks, 3, seedNumber, {"has"}) = {}
       /\ Cardinality(carriersWith(cellMarks, 3, seedNumber, {"empty", "bars"})) = 1

\* C19 - At most one holder per card: with rowElimination enabled for every
\* event, in every grid reached from the empty grid by the marker events of
\* the sheet, each card row holds at most one cell whose primary is has.
C19_AtMostOneHolder ==
  \A cardId \in Cards :
    Cardinality({playerId \in Players :
                   getCellMark(cellMarks, cardId, playerId).primary = "has"}) <= 1

\* C20 - Game reset: when resetGame has completed (the settings have been
\* applied), every cell of the grid reads the canonical empty mark, the
\* shown-to map is empty and the setup state is the initial one for the game
\* that starts: phase selectPublic if publicCount > 0 and selectOwner
\* otherwise, with empty publicCards, ownerCards and currentSelection.
C20_GameReset ==
  lastEvent = "settingsSaved"
    => /\ \A cardId \in Cards, playerId \in Players :
            getCellMark(cellMarks, cardId, playerId) = EMPTY_MARK
       /\ shownToState = EmptyShownTo
       /\ setupState = [phase |-> IF config.publicCount > 0 THEN "selectPublic"
                                  ELSE "selectOwner",
                        publicCards |-> << >>,
                        ownerCards |-> << >>,
                        currentSelection |-> << >>]

\* C21 - Shown-to set semantics: no operation of the tracker leaves a card
\* mapped to an empty set; a toggle of (card, player) changes the entry of
\* no other card; and a toggle of the same (card, player) right after the
\* first restores the mapping the first toggle was applied to.
C21_ShownToSets ==
  [][/\ \A cardId \in DOMAIN shownToState' : shownToState'[cardId] # {}
     /\ lastEvent' = "toggleShownTo"
          => \A call \in probe'.calls : \A cardId \in Cards \ {call.arg[1]} :
               /\ cardId \in DOMAIN shownToState' <=> cardId \in DOMAIN shownToState
               /\ getShownToPlayers(shownToState', cardId)
                    = getShownToPlayers(shownToState, cardId)
     /\ (lastEvent' = "toggleShownTo" /\ lastEvent = "toggleShownTo")
          => \A first \in probe.calls, second \in probe'.calls :
               second.arg = first.arg => shownToState' = first.from]_vars

\* a toggle has taken the last player out of a card's set and the entry of
\* the card is gone while another card keeps its own
C21_Witness ==
  /\ lastEvent = "toggleShownTo"
  /\ \E call \in probe.calls :
       /\ call.arg[1] \in DOMAIN call.from
       /\ call.arg[1] \notin DOMAIN shownToState
       /\ DOMAIN shownToState # {}

\* C22 - Bar-color toggle: a toggleBarColor step with a color that the mark
\* does not carry stores primary bars with the color added, whatever the
\* primary was; with the only color of the mark it stores primary empty and
\* no color; in both cases the numbers of the mark are the ones it had, and
\* the mark returned is the one the cell holds afterwards.
C22_BarColorToggle ==
  [][lastEvent' = "toggleBarColor"
       => \A call \in probe'.calls :
            /\ call.to.numbers = call.from.numbers
            /\ call.arg \notin call.from.barColors
                 => /\ call.to.primary = "bars"
                    /\ call.to.barColors = call.from.barColors \cup {call.arg}
            /\ call.from.barColors = {call.arg}
                 => /\ call.to.primary = "empty"
                    /\ call.to.barColors = {}
            /\ \A cardId \in Cards, playerId \in 1..MaxStorePlayer :
                 getCellMark(cellMarks', cardId, playerId)
                     # getCellMark(cellMarks, cardId, playerId)
                   => getCellMark(cellMarks', cardId, playerId) = call.to]_vars

\* the last color of a numbered bars cell has been toggled off: the cell is
\* empty and keeps its numbers
C22_Witness ==
  /\ lastEvent = "toggleBarColor"
  /\ \E call \in probe.calls :
       /\ call.from.primary = "bars"
       /\ call.from.barColors = {call.arg}
       /\ call.from.numbers # {}
       /\ call.to.primary = "empty"
       /\ \E cardId \in Cards, playerId \in 1..MaxStorePlayer :
            /\ makeKey(cardId, playerId) \in DOMAIN cellMarks
            /\ getCellMark(cellMarks, cardId, playerId) = call.to

\* C23 - Shown-to only for owned cards: in every reachable state every card
\* with a shown-to entry is one of the confirmed owner cards of the game in
\* progress; no entry is created or survives for a card once a game reset
\* has discarded the owner cards.
C23_ShownToOnlyOwned ==
  \A cardId \in DOMAIN shownToState : cardId \in Range(setupState.ownerCards)

\* the marks of the row of a card, column by column
rowOf(marks, cardId) ==
  [playerId \in 1..PLAYER_COL_COUNT |-> getCellMark(marks, cardId, playerId)]

\* the row a confirmation writes for a card of the given type
lockedRow(type) ==
  [playerId \in 1..PLAYER_COL_COUNT |->
     IF type = "owner" /\ playerId = 1
     THEN createMark("has", {}, {}) ELSE createMark("not", {}, {})]

\* C24 - Locked rows are immutable: after every step the row of a public
\* card is not in all six columns and the row of an owner card is has for
\* player 1 and not for players 2..6, and a step that is not a game reset
\* changes no cell in the row of a card that was public or owner before it,
\* whichever cell was selected when the card was confirmed.
C24_LockedRowsImmutable ==
  [][\A cardId \in Cards :
       /\ cardId \in Range(setupState'.publicCards)
            => rowOf(cellMarks', cardId) = lockedRow("public")
       /\ cardId \in Range(setupState'.ownerCards)
            => rowOf(cellMarks', cardId) = lockedRow("owner")
       /\ (isRowLocked(cardId) /\ lastEvent' # "settingsSaved")
            => rowOf(cellMarks', cardId) = rowOf(cellMarks, cardId)]_vars

\* C25 - Grid is frozen during setup: a step taken while the phase is
\* selectPublic or selectOwner changes the grid only when it is the
\* confirmation of the phase (or the game reset itself); no marker-bar
\* action changes a cell in those phases, reset with a selected cell or not.
C25_GridFrozenInSetup ==
  [][(isInSetup /\ lastEvent' \notin {"confirmed", "settingsSaved"})
       => cellMarks' = cellMarks]_vars

\* the cells of the grid that differ between two maps
changedCells(before, after) ==
  {cell \in Cards \X (1..PLAYER_COL_COUNT) :
     getCellMark(after, cell[1], cell[2]) # getCellMark(before, cell[1], cell[2])}

\* C26 - No cascade when rules are off: with rowElimination and
\* lastMaybeDeduction both disabled, a Mark-as-HAS or Mark-as-NOT step gives
\* the selected cell the new primary and the numbers it had, and changes no
\* other cell of the grid.
C26_NoCascadeRulesOff ==
  [][(/\ lastEvent' \in {"markHas", "markNot"}
      /\ ~config.autoRules.rowElimination
      /\ ~config.autoRules.lastMaybeDeduction)
       => /\ getCellMark(cellMarks', selCard, selPlayer).primary
               = (IF lastEvent' = "markHas" THEN "has" ELSE "not")
          /\ getCellMark(cellMarks', selCard, selPlayer).numbers = currentMark.numbers
          /\ changedCells(cellMarks, cellMarks') \subseteq {selectedCell}]_vars

\* with both rules off a numbered cell has been marked has in a row where
\* another cell is still open: the row elimination had something to write
C26_Witness ==
  /\ lastEvent = "markHas"
  /\ ~config.autoRules.rowElimination
  /\ ~config.autoRules.lastMaybeDeduction
  /\ \E cardId \in Cards, playerId \in 1..MaxClickPlayer :
       /\ getCellMark(cellMarks, cardId, playerId).primary = "has"
       /\ getCellMark(cellMarks, cardId, playerId).numbers # {}
       /\ \A other \in (1..PLAYER_COL_COUNT) \ {playerId} :
            getCellMark(cellMarks, cardId, other).primary # "has"
       /\ \E other \in (1..PLAYER_COL_COUNT) \ {playerId} :
            getCellMark(cellMarks, cardId, other).primary = "empty"

\* the cells of a column that a step has turned has
resolvedCells(before, after, playerId) ==
  {cell \in changedCells(before, after) :
     /\ cell[2] = playerId
     /\ getCellMark(after, cell[1], cell[2]).primary = "has"}

\* C27 - Cascade footprint: with rowElimination on, a Mark-as-HAS step on
\* (card, p) changes no cell outside the row of card; with
\* lastMaybeDeduction on and rowElimination off, a Mark-as-NOT step on
\* (card, p) changes no cell outside column p; with both on, a Mark-as-NOT
\* step changes only (card, p), the cells of column p that it has turned
\* has, and cells in the rows of those cells.
C27_CascadeFootprint ==
  [][/\ (lastEvent' = "markHas" /\ config.autoRules.rowElimination)
          => \A cell \in changedCells(cellMarks, cellMarks') : cell[1] = selCard
     /\ (/\ lastEvent' = "markNot"
         /\ config.autoRules.lastMaybeDeduction
         /\ ~config.autoRules.rowElimination)
          => \A cell \in changedCells(cellMarks, cellMarks') : cell[2] = selPlayer
     /\ (/\ lastEvent' = "markNot"
         /\ config.autoRules.lastMaybeDeduction
         /\ config.autoRules.rowElimination)
          => \A cell \in changedCells(cellMarks, cellMarks') :
               \/ cell = selectedCell
               \/ \E resolved \in resolvedCells(cellMarks, cellMarks', selPlayer) :
                    cell[1] = resolved[1]]_vars

\* with both rules on a Mark-as-NOT has ended in a resolved numbered cell
\* whose row is eliminated, in a column where another card keeps its mark
C27_Witness ==
  /\ lastEvent = "markNot"
  /\ config.autoRules.lastMaybeDeduction
  /\ config.autoRules.rowElimination
  /\ \E cardId \in Cards :
       /\ getCellMark(cellMarks, cardId, MaxClickPlayer).primary = "has"
       /\ getCellMark(cellMarks, cardId, MaxClickPlayer).numbers # {}
       /\ \A other \in (1..PLAYER_COL_COUNT) \ {MaxClickPlayer} :
            getCellMark(cellMarks, cardId, other) = createMark("not", {}, {})
       /\ \E otherCard \in Cards \ {cardId} :
            /\ getCellMark(cellMarks, otherCard, MaxClickPlayer).primary = "empty"
            /\ getCellMark(cellMarks, otherCard, MaxClickPlayer).numbers # {}

\* the moves of the setup phase between two game resets
PhaseMoves ==
  {<<"selectPublic", "selectOwner">>, <<"selectPublic", "playing">>,
   <<"selectOwner", "playing">>}

\* the part of the phase order that concerns the steps between two resets
phaseOrderBetweenResets ==
  lastEvent' # "settingsSaved"
    => /\ effectivePhase' # effectivePhase
            => <<effectivePhase, effectivePhase'>> \in PhaseMoves
       /\ (lastEvent' = "confirmed" /\ effectivePhase = "playing")
            => (setupState' = setupState /\ cellMarks' = cellMarks)
       /\ setupState'.publicCards # setupState.publicCards
            => (lastEvent' = "confirmed" /\ effectivePhase = "selectPublic")
       /\ setupState'.ownerCards # setupState.ownerCards
            => (lastEvent' = "confirmed" /\ effectivePhase = "selectOwner")

\* C28 - Setup phase order: between two game resets the phase only moves
\* forward along selectPublic, selectOwner, playing; playing is left only by
\* a reset and a confirmation in playing changes nothing; publicCards is
\* assigned only by the confirmation of selectPublic and ownerCards only by
\* the confirmation of selectOwner; and the phase selectPublic is skipped
\* when publicCount is 0.
C28_PhaseOrder ==
  [][/\ phaseOrderBetweenResets
     /\ effectivePhase' = "selectPublic" => config'.publicCount > 0]_vars

\* the count the confirmation of the current phase asks for
requiredNow == requiredCount(effectivePhase, config.publicCount, config.handSize)

\* the part of the exact selection count that concerns the Confirm button
confirmOnlyExactCount ==
  /\ lastEvent' \in {"confirmClick", "confirmed"}
       => Len(setupState.currentSelection) = requiredNow
  /\ lastEvent' = "validationFailed"
       => /\ Len(setupState.currentSelection) # requiredNow
          /\ setupState' = setupState
          /\ cellMarks' = cellMarks
          /\ showConfirmDialog' = FALSE

\* C29 - Exact selection count: a phase is confirmed only when the number of
\* selected cards equals the required count (publicCount in selectPublic,
\* handSize in selectOwner); with fewer or more, the phase, the confirmed
\* lists and the grid are unchanged; hence in phase playing the number of
\* public cards equals publicCount and the number of owner cards equals
\* handSize.
C29_ExactSelectionCount ==
  [][/\ confirmOnlyExactCount
     /\ effectivePhase' = "playing"
          => /\ Len(setupState'.publicCards) = config'.publicCount
             /\ Len(setupState'.ownerCards) = config'.handSize]_vars

\* C30 - Public and owner cards are disjoint: in every reachable state no
\* card is both in publicCards and in ownerCards, and no confirmed public
\* card is in the current selection.
C30_PublicOwnerDisjoint ==
  /\ Range(setupState.publicCards) \cap Range(setupState.ownerCards) = {}
  /\ Range(setupState.publicCards) \cap Range(setupState.currentSelection) = {}

\* a setup with a public phase and an owner phase has been completed
C30_Witness ==
  /\ effectivePhase = "playing"
  /\ lastEvent = "confirmed"
  /\ setupState.publicCards # << >>
  /\ setupState.ownerCards # << >>

\* the columns of a row whose point read has the given primary
columnsWithPrimary(marks, cardId, primary) ==
  {playerId \in Players : getCellMark(marks, cardId, playerId).primary = primary}

\* C31 - Row/column predicates agree with point reads: in every state of the
\* store, for every card, column and primary P of empty, has, not, bars,
\* rowHasPrimary(card, P) holds exactly when one of the six point reads of
\* the row has primary P, countPrimaryInRow(card, P) is the number of those
\* columns, and columnHasPrimary(p, P) holds exactly when the point read of
\* some card in column p has primary P.
C31_PredicatesAgreeWithReads ==
  \A primary \in PrimaryMarks :
    /\ \A cardId \in Cards :
         /\ rowHasPrimary(cellMarks, cardId, primary)
              <=> columnsWithPrimary(cellMarks, cardId, primary) # {}
         /\ countPrimaryInRow(cellMarks, cardId, primary)
              = Cardinality(columnsWithPrimary(cellMarks, cardId, primary))
    /\ \A playerId \in Players :
         columnHasPrimary(cellMarks, playerId, primary)
           <=> \E cardId \in Cards : getCellMark(cellMarks, cardId, playerId).primary = primary

\* the store after toggleNumber(cardId, playerId, num) on the given store
afterToggleNumber(marks, cardId, playerId, num) ==
  setCellMark(marks, cardId, playerId,
              withToggledNumber(getCellMark(marks, cardId, playerId), num))

\* C32 - Number toggle is a local involution: a toggleNumber step with
\* number N changes one cell only; the cell keeps its primary and its
\* bar colors, whatever the primary, and N has moved in or out of its
\* numbers; and toggleNumber with the same N on the same cell once more
\* gives back the mark and the store that the step started from.
C32_NumberToggleInvolution ==
  [][lastEvent' = "toggleNumber"
       => \A call \in probe'.calls :
            /\ call.to.primary = call.from.primary
            /\ call.to.barColors = call.from.barColors
            /\ call.to.numbers = IF call.arg \in call.from.numbers
                                 THEN call.from.numbers \ {call.arg}
                                 ELSE call.from.numbers \cup {call.arg}
            /\ Cardinality(changedCells(cellMarks, cellMarks')) = 1
            /\ \A cell \in changedCells(cellMarks, cellMarks') :
                 /\ getCellMark(cellMarks, cell[1], cell[2]) = call.from
                 /\ getCellMark(cellMarks', cell[1], cell[2]) = call.to
                 /\ withToggledNumber(call.to, call.arg) = call.from
                 /\ afterToggleNumber(cellMarks', cell[1], cell[2], call.arg) = cellMarks]_vars

\* a number has been toggled off a has cell that carried two numbers
C32_Witness ==
  /\ lastEvent = "toggleNumber"
  /\ \E call \in probe.calls :
       /\ call.from.primary = "has"
       /\ call.arg \in call.from.numbers
       /\ call.to.numbers # {}
       /\ \E cell \in StoreCells :
            /\ makeKey(cell[1], cell[2]) \in DOMAIN cellMarks
            /\ getCellMark(cellMarks, cell[1], cell[2]) = call.to

\* C33 - Re-pressing a settled mark clears the cell: HAS pressed on a cell
\* whose primary is has, or NOT on a cell whose primary is not, is a clear
\* and never a mark event; the cell is the empty mark afterwards, with no
\* number and no stored key, and no other cell changes, whatever the rules.
C33_RepressClears ==
  [][/\ lastEvent' = "markHas" => currentMark.primary # "has"
     /\ lastEvent' = "markNot" => currentMark.primary # "not"
     /\ lastEvent' = "clearMark"
          => /\ currentMark.primary \in {"has", "not"}
             /\ getCellMark(cellMarks', selCard, selPlayer) = EMPTY_MARK
             /\ makeKey(selCard, selPlayer) \notin DOMAIN cellMarks'
             /\ changedCells(cellMarks, cellMarks') = {selectedCell}]_vars

\* with both rules on a settled cell has been cleared in a row that still
\* has an open numbered cell, which neither rule has touched
C33_Witness ==
  /\ lastEvent = "clearMark"
  /\ config.autoRules.rowElimination
  /\ config.autoRules.lastMaybeDeduction
  /\ selectedCell # NoCell
  /\ getCellMark(cellMarks, selCard, selPlayer) = EMPTY_MARK
  /\ \E other \in Players \ {selPlayer} :
       /\ getCellMark(cellMarks, selCard, other).primary = "empty"
       /\ getCellMark(cellMarks, selCard, other).numbers # {}

\* C34 - Settings apply is all-or-nothing: when saveConfig throws, the grid,
\* the shown-to state, the setup state and the active configuration are
\* what they were and the settings modal stays open; when it returns, the
\* grid and the shown-to state are empty, the setup lists are empty and the
\* modal is closed; and the active configuration is replaced by no step
\* other than a successful apply.
C34_ApplyAllOrNothing ==
  [][/\ lastEvent' = "settingsFailed"
          => /\ cellMarks' = cellMarks
             /\ shownToState' = shownToState
             /\ setupState' = setupState
             /\ config' = config
             /\ settingsOpen'
     /\ lastEvent' = "settingsSaved"
          => /\ cellMarks' = EmptyMap
             /\ shownToState' = EmptyShownTo
             /\ setupState'.publicCards = << >>
             /\ setupState'.ownerCards = << >>
             /\ setupState'.currentSelection = << >>
             /\ ~settingsOpen'
     /\ config' # config => lastEvent' = "settingsSaved"]_vars

\* an apply has failed in the middle of a game: the owner cards, their
\* marks and a shown-to entry are still there and the modal is open
C34_Witness ==
  /\ lastEvent = "settingsFailed"
  /\ settingsOpen
  /\ setupState.ownerCards # << >>
  /\ cellMarks # EmptyMap
  /\ shownToState # EmptyShownTo

\* C35 - Enabled players form a prefix: from a draft whose enabled ids are
\* 1..k with 2 <= k <= 6, after every call of togglePlayer (and every other
\* edit of the draft) the enabled ids are 1..k' with 2 <= k' <= 6, listed in
\* order; players 1 and 2 are never disabled, disabling player n leaves
\* exactly the players below n, and enabling player n leaves the players
\* that were enabled together with all of 1..n.
C35_EnabledPlayersPrefix ==
  [][/\ Len(draft'.players) \in MIN_PLAYERS..MAX_PLAYERS
     /\ \A i \in 1..Len(draft'.players) : draft'.players[i].id = i
     /\ lastEvent' = "togglePlayer"
          => \A call \in probe'.calls :
               /\ {1, 2} \subseteq call.to
               /\ call.arg <= 2 => call.to = call.from
               /\ (call.arg > 2 /\ call.arg \in call.from)
                    => call.to = {pid \in call.from : pid < call.arg}
               /\ (call.arg > 2 /\ call.arg \notin call.from)
                    => call.to = call.from \cup (1..call.arg)]_vars

\* player 4 has been disabled while players 5 and 6 were enabled: players
\* 1..3 remain
C35_Witness ==
  /\ lastEvent = "togglePlayer"
  /\ \E call \in probe.calls :
       /\ call.from = 1..6
       /\ call.arg = 4
       /\ enabledPlayerIds = 1..3

\* C36 - Card distribution arithmetic: in every render of the settings
\* modal totalCards is 21, playerCount is in 2..6, and the handSize and
\* publicCount that deriveGameParams returns satisfy
\* handSize * playerCount + publicCount + 3 = totalCards and
\* 0 <= publicCount < playerCount.
C36_CardDistribution ==
  /\ totalCards = 21
  /\ playerCount \in 2..6
  /\ derivedGameParams.handSize * playerCount + derivedGameParams.publicCount + 3 = totalCards
  /\ 0 <= derivedGameParams.publicCount
  /\ derivedGameParams.publicCount < playerCount

\* the modal shows four players: four cards each and two public cards
C36_Witness ==
  /\ lastEvent = "togglePlayer"
  /\ playerCount = 4
  /\ derivedGameParams = [handSize |-> 4, publicCount |-> 2]

====
